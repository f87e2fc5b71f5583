---------------------------- MODULE MonitorSession ----------------------------
(***************************************************************************)
(* What the monitor bridge promises a resolver (spec 4.4, 5 and 7): one    *)
(* monitor session per resolver, a state machine over Unstarted, Running   *)
(* and Terminated.  Lines are sent only to a running session and read by   *)
(* its monitor in the order sent.  A monitor that exits returns the        *)
(* session to Unstarted and loses the lines still in flight (delivery is   *)
(* at-least-zero, never out of order or twice); a later call restarts it.  *)
(* Termination is final and also loses what is in flight.                 *)
(***************************************************************************)
EXTENDS Sequences

CONSTANTS Resolvers,   \* the resolvers, one session each
          Lines        \* the lines that can be sent

VARIABLES
    state,        \* per resolver: "unstarted", "running" or "terminated"
    inflight,     \* per resolver: lines sent and not yet read, oldest first
    delivered     \* per resolver: lines the monitor has read, in order

svars == <<state, inflight, delivered>>

SessionInit ==
    /\ state = [r \in Resolvers |-> "unstarted"]
    /\ inflight = [r \in Resolvers |-> <<>>]
    /\ delivered = [r \in Resolvers |-> <<>>]

(* Unstarted -> Running: a monitor process is spawned *)
Start(r) ==
    /\ state[r] = "unstarted"
    /\ state' = [state EXCEPT ![r] = "running"]
    /\ UNCHANGED <<inflight, delivered>>

(* a line written to the running monitor *)
Send(r, l) ==
    /\ state[r] = "running"
    /\ inflight' = [inflight EXCEPT ![r] = Append(@, l)]
    /\ UNCHANGED <<state, delivered>>

(* the monitor reads the oldest line in flight *)
Deliver(r) ==
    /\ state[r] = "running"
    /\ inflight[r] # <<>>
    /\ delivered' = [delivered EXCEPT ![r] = Append(@, Head(inflight[r]))]
    /\ inflight' = [inflight EXCEPT ![r] = Tail(@)]
    /\ UNCHANGED state

(* Running -> Unstarted-equivalent: the monitor exits, unread lines are lost *)
Exit(r) ==
    /\ state[r] = "running"
    /\ state' = [state EXCEPT ![r] = "unstarted"]
    /\ inflight' = [inflight EXCEPT ![r] = <<>>]
    /\ UNCHANGED delivered

(* Running -> Terminated: explicit shutdown *)
Terminate(r) ==
    /\ state[r] = "running"
    /\ state' = [state EXCEPT ![r] = "terminated"]
    /\ inflight' = [inflight EXCEPT ![r] = <<>>]
    /\ UNCHANGED delivered

SessionNext ==
    \E r \in Resolvers :
        \/ Start(r) \/ (\E l \in Lines : Send(r, l)) \/ Deliver(r)
        \/ Exit(r) \/ Terminate(r)

SessionSpec == SessionInit /\ [][SessionNext]_svars

=============================================================================
