----------------------------- MODULE MC_Predicates -----------------------------
(* build_predicates over the captures of MC_CaptureDecoder, query files   *)
(* of each kind and the kinds of dict parse_response_txt returns.         *)
EXTENDS Predicates, MC_CaptureDecoder

MCQueryFiles ==
    { [kind |-> "absent", id |-> 0, rd |-> TRUE, do |-> FALSE],
      [kind |-> "badhex", id |-> 0, rd |-> FALSE, do |-> FALSE],
      [kind |-> "short", id |-> 7, rd |-> FALSE, do |-> FALSE],
      [kind |-> "msg", id |-> 7, rd |-> TRUE, do |-> TRUE],
      [kind |-> "msg", id |-> 7, rd |-> FALSE, do |-> FALSE] }

EmptyResponse ==
    [timeout |-> FALSE, resp_id |-> 0, rcode |-> "rcNotSet", nscount |-> 0,
     opt_present |-> FALSE, resp_size |-> 0, cname_chase_count |-> 0,
     resp_port |-> 53]

MCResponses ==
    { None,
      [EmptyResponse EXCEPT !.timeout = TRUE],
      EmptyResponse,
      [EmptyResponse EXCEPT !.resp_id = 7, !.rcode = "NOERROR",
                            !.opt_present = TRUE, !.resp_size = 1300],
      [EmptyResponse EXCEPT !.rcode = "NXDOMAIN", !.nscount = 1,
                            !.cname_chase_count = 11] }
=============================================================================
