---------------------------- MODULE ClientConsole ---------------------------
(***************************************************************************)
(* What transmission_client.cpp makes of the lines its user types: the     *)
(* name loop, its static buffer, and the "continue?" answer.               *)
(***************************************************************************)
EXTENDS Integers, Sequences

CONSTANTS
    Lines,      \* what a user types for a name: sequences of characters
    Answers,    \* what a user types for an answer
    BufCap,     \* sizeof(filenamebuf); no line is longer
    Turns       \* bound on the turns

Quote == "quote"
Space == "space"
Newline == "newline"
Nul == "nul"

VARIABLES
    cin,        \* characters typed and not yet read
    buf,        \* filenamebuf
    opened,     \* the names the turns so far opened
    typed,      \* the names the user typed for them
    at          \* "name" and "answer": to be asked; "reading", "sent"; "over"

consoleVars == <<cin, buf, opened, typed, at>>

ConsoleInit ==
    /\ cin = <<>>
    /\ buf = [i \in 1 .. BufCap |-> Nul]   \* a static array starts as zeros
    /\ opened = <<>>
    /\ typed = <<>>
    /\ at = "name"

Unquoted(line) == SelectSeq(line, LAMBDA c : c # Quote)

\* The first place from i on whose character is one of cs, or one past the end.
FirstFrom(s, i, cs) ==
    CHOOSE j \in i .. Len(s) + 1 :
       /\ j <= Len(s) => s[j] \in cs
       /\ \A k \in i .. j - 1 : s[k] \notin cs

\* strlen(filenamebuf) characters
NameIn(b) == SubSeq(b, 1, FirstFrom(b, 1, {Nul}) - 1)

\* "please input filename(full path) to transmitt": the user types a line.
TypeName ==
    /\ at = "name"
    /\ Len(typed) < Turns
    /\ \E line \in Lines :
         /\ cin' = cin \o line \o <<Newline>>
         /\ typed' = Append(typed, Unquoted(line))
    /\ at' = "reading"
    /\ UNCHANGED <<buf, opened>>

\* The loop reads to the end of the first line there is, which may be what the
\* last answer left behind, and writes it over the buffer without ending it.
LineEnd == FirstFrom(cin, 1, {Newline})

Overwrite(line) ==
    [i \in 1 .. BufCap |-> IF i <= Len(line) THEN line[i] ELSE buf[i]]

ReadName ==
    /\ at = "reading"
    /\ buf' = Overwrite(Unquoted(SubSeq(cin, 1, LineEnd - 1)))
    /\ cin' = SubSeq(cin, LineEnd + 1, Len(cin))
    /\ opened' = Append(opened, NameIn(buf'))
    /\ at' \in {"over", "sent"}        \* "open failed!" ends the program
    /\ UNCHANGED typed

\* The acknowledgement would be received into the same buffer; the server sends
\* none to the client, and the end of the connection leaves it as it is.
RecvAck ==
    /\ at = "sent"
    /\ at' = "answer"
    /\ UNCHANGED <<cin, buf, opened, typed>>

\* "continue?[yes/no]" and cin >> option: blanks are skipped, the line's end
\* stays.
Blanks == {Space, Newline}

Answer ==
    /\ at = "answer"
    /\ \E line \in Answers :
         LET all  == cin \o line \o <<Newline>>
             word == CHOOSE w \in 1 .. Len(all) :
                        all[w] \notin Blanks /\ \A i \in 1 .. w - 1 : all[i] \in Blanks
             end  == FirstFrom(all, word, Blanks)
         IN /\ cin' = SubSeq(all, end, Len(all))
            /\ at' = IF SubSeq(all, word, end - 1) = <<"y">> THEN "name" ELSE "over"
    /\ UNCHANGED <<buf, opened, typed>>

ConsoleNext == TypeName \/ ReadName \/ RecvAck \/ Answer

ConsoleSpec == ConsoleInit /\ [][ConsoleNext]_consoleVars

-----------------------------------------------------------------------------

\* "please input filename(full path) to transmitt" (transmission_client.cpp:37):
\* the file a turn opens is the one typed for it.
TypedNameUsed == \A i \in 1 .. Len(opened) : opened[i] = typed[i]
=============================================================================
