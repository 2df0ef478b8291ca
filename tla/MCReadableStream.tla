-------------------------- MODULE MCReadableStream --------------------------
(***************************************************************************)
(* Instances of ReadableStream and ByteStream for TLC, one of them in each *)
(* behaviour: "which" says which, and the other stays as it starts.        *)
(* "demand" remembers how many chunks there were when pull() was last      *)
(* called.                                                                 *)
(***************************************************************************)
EXTENDS ReadableStream, ByteStream

CONSTANT Parts    \* the streams looked at

ASSUME MCAssumption ==
  MaxChunks > 1 /\ MaxReads > 1 /\ MaxReaders > 0 /\ Parts \subseteq {"default", "bytes"}

VARIABLES which, demand

MCInit ==
  /\ which \in Parts
  /\ Init /\ demand = -1 /\ ByteInit
  /\ which # "bytes" => \A n \in AutoSizes : bytes.auto <= n

DefaultStep ==
  /\ which = "default"
  /\ Next /\ demand' = IF pull' = "running" /\ pull # "running" THEN enqueued' ELSE demand
  /\ UNCHANGED byteVars

\* A byte stream may have come to its end, or to a lapse.
BytesStep == which = "bytes" /\ (ByteNext \/ UNCHANGED byteVars) /\ UNCHANGED <<vars, demand>>

MCNext == (DefaultStep \/ BytesStep) /\ UNCHANGED which
MCSpec == MCInit /\ [][MCNext]_<<vars, byteVars, which, demand>> /\ WF_vars(Job)

\* With a source that settles its promise and brings a chunk for each call of pull()
\* (enqueued # demand), every read() is answered while there is more to come: "Reads
\* the next chunk; resolves {value, done}" (src/doc/native/stream.md:32).  A read
\* never waits for ever on a source that is not asked.
ReadResolves ==
  \A k \in Reads :
    []<>(answer[k].st # "pending" \/ Over \/ pull # "none" \/ enqueued = demand)
=============================================================================
