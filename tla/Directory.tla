----------------------------- MODULE Directory ------------------------------
(***************************************************************************)
(* What the server promises about its directory, without workers, sockets  *)
(* or messages: a name is free, holds a file from before, or holds the     *)
(* beginning of one session's data, which only grows, byte after byte, by  *)
(* that session; a file is removed or replaced only after the operator     *)
(* agreed to it; a session is reported as saved when its file is whole.    *)
(***************************************************************************)
EXTENDS Integers, Sequences

CONSTANTS
    Names,      \* names of files
    Sources,    \* sessions, each with data of its own
    NoSource,   \* nobody: a file from before the server was started
    Size,       \* [Sources -> number of bytes of the session's data]
    Old         \* the names that hold a file at the start

VARIABLES
    dir,        \* dir[n]: what the name n holds
    agreed,     \* the names whose file the operator agreed to overwrite
    saved       \* the sessions reported as saved

Free == [there |-> FALSE, by |-> NoSource, bytes |-> <<>>]
Before == [there |-> TRUE, by |-> NoSource, bytes |-> <<>>]

\* The first k bytes of session s's data.
Prefix(s, k) == [i \in 1 .. k |-> s]

Holding(s, k) == [there |-> TRUE, by |-> s, bytes |-> Prefix(s, k)]

DirInit ==
    /\ dir = [n \in Names |-> IF n \in Old THEN Before ELSE Free]
    /\ agreed = {}
    /\ saved = {}

\* The operator agrees that the file under the name may be overwritten.
Agree(n) ==
    /\ dir[n].there
    /\ agreed' = agreed \cup {n}
    /\ UNCHANGED <<dir, saved>>

\* A file that may be overwritten goes, whoever it is from.
Discard(n) ==
    /\ n \in agreed
    /\ dir' = [dir EXCEPT ![n] = Free]
    /\ UNCHANGED <<agreed, saved>>

\* A session's file appears, empty, and once, under a name that is free or in
\* the place of a file that may be overwritten, which uses the consent up.
Begin(n, s) ==
    /\ ~dir[n].there \/ n \in agreed
    /\ s \notin saved
    /\ \A m \in Names : dir[m].by # s
    /\ dir' = [dir EXCEPT ![n] = Holding(s, 0)]
    /\ agreed' = agreed \ {n}
    /\ UNCHANGED saved

\* No file can be created there, and the consent lapses.
Abandon(n) ==
    /\ agreed' = agreed \ {n}
    /\ UNCHANGED <<dir, saved>>

\* The session's next bytes are added to it.
Grow(n, s) ==
    /\ s \notin saved
    /\ \E k, m \in 0 .. Size[s] :
         /\ k < m
         /\ dir[n] = Holding(s, k)
         /\ dir' = [dir EXCEPT ![n] = Holding(s, m)]
    /\ UNCHANGED <<agreed, saved>>

\* The session is reported as saved.
Finish(n, s) ==
    /\ dir[n] = Holding(s, Size[s])
    /\ saved' = saved \cup {s}
    /\ UNCHANGED <<dir, agreed>>

DirNext ==
    \E n \in Names :
       \/ Agree(n) \/ Discard(n) \/ Abandon(n)
       \/ \E s \in Sources : Begin(n, s) \/ Grow(n, s) \/ Finish(n, s)

DirSpec == DirInit /\ [][DirNext]_<<dir, agreed, saved>>
=============================================================================
