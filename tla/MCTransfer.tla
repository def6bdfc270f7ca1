----------------------------- MODULE MCTransfer -----------------------------
(***************************************************************************)
(* Instances of Transfer for TLC.  Headers are two bytes long, so that a   *)
(* header can come in parts and fail with one byte read; names are two     *)
(* bytes, so that a name can be cut; files are zero to three bytes against *)
(* chunks of two, so that a file takes two chunks, the last one short.     *)
(***************************************************************************)
EXTENDS Transfer, TLC

CONSTANTS s1, s2, s3, n1, n2

MCHdrLen == 2

\* Every session sends two bytes of name.
MCNameLen == [s \in Sessions |-> 2]

MCDataLen == [s \in Sessions |-> IF s = s1 THEN 3 ELSE IF s = s2 THEN 1 ELSE 0]

\* For the faults: s1 sends an empty file, whose name may be cut, s2 a full one.
FaultDataLen == [s \in Sessions |-> IF s = s1 THEN 0 ELSE 3]

\* One byte per session.
OneByte == [s \in Sessions |-> 1]

\* For liveness: the second turn of the client sends an empty file.
LiveDataLen == [s \in Sessions |-> IF s = s2 THEN 0 ELSE 1]

\* Every session has a name of its own; s1's name cut after one byte is s2's.
DistinctNames ==
    [s \in Sessions |->
       (0 :> NoName) @@ (1 :> IF s = s1 THEN n2 ELSE NoName)
                     @@ (2 :> IF s = s1 THEN n1 ELSE n2)]

\* Names of one byte: s2 sends a file of the same name as s1 before it.
ShortNames ==
    [s \in Sessions |-> (0 :> NoName) @@ (1 :> IF s = s3 THEN n2 ELSE n1)]

\* All sessions send files of the same name.
SameName == [s \in Sessions |-> (0 :> NoName) @@ (1 :> NoName) @@ (2 :> n1)]

\* Every session is a client process of its own.
OwnProcesses == [s \in Sessions |-> NoSession]

\* s2 is the second turn of the client that had s1.
OneProcess == [s \in Sessions |-> IF s = s2 THEN s1 ELSE NoSession]

WorkerSymmetry == Permutations(Workers)
=============================================================================
