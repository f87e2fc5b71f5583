-------------------------- MODULE MC_MonitorBridge --------------------------
EXTENDS MonitorBridge

=============================================================================
