-------------------------- MODULE MCWritableStream --------------------------
(***************************************************************************)
(* Instances of WritableStream and TransformStream for TLC, one of them in *)
(* each behaviour: "which" says which, and the other stays as it starts.   *)
(***************************************************************************)
EXTENDS WritableStream, TransformStream

ASSUME MCAssumption == MaxEntries > 1 /\ MaxWriters > 1

VARIABLE which

\* The program at the ends of a TransformStream may be done.
TransformStep == TransformNext \/ UNCHANGED transformVars

MCInit == which \in {"writable", "transform"} /\ Init /\ TransformInit
MCNext ==
  /\ UNCHANGED which
  /\ \/ which = "writable" /\ Next /\ UNCHANGED transformVars
     \/ which = "transform" /\ TransformStep /\ UNCHANGED vars
MCSpec == MCInit /\ [][MCNext]_<<which, vars, transformVars>> /\ WF_vars(Job)
=============================================================================
