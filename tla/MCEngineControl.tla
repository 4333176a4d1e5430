-------------------------- MODULE MCEngineControl --------------------------
(* Instances of EngineControl for TLC. *)
EXTENDS EngineControl

\* Output requests of two slots, three kinds of safety request, and the
\* commands that connect and disconnect.
SafetyRequests ==
    [kind : {"Run", "SetSourceDc", "Connect", "Disconnect"}, tagged : {TRUE}]
      \cup [kind : {"Stop", "OutputOff", "SourceDcOff"}, tagged : {FALSE}]

\* One held output and one OFF, for the temporal properties.
LiveRequests == {[kind |-> "SetGateVoltage", tagged |-> TRUE], [kind |-> "OutputOff", tagged |-> FALSE]}
=============================================================================
