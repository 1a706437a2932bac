----------------------------- MODULE CommandLog -----------------------------
(***************************************************************************)
(* What the panel promises of the answers to commands, whatever channels   *)
(* they come by: a command has a log that only gets longer, and a page     *)
(* that follows it shows the beginning of the log, one answer after the    *)
(* other, until the final one or until its user leaves.  Only a page that  *)
(* is a whole channel behind may lose its place in the log, and then       *)
(* nothing more is promised of it.  CommandChannel implements this.        *)
(***************************************************************************)
EXTENDS Naturals, Sequences

CONSTANTS
  Cmd,     \* commands
  Answer,  \* what a log is made of
  Final,   \* the answer after which a page ends
  Page,    \* pages
  Cap,     \* how far behind a page may be and never lose its place
  None     \* no command

VARIABLES
  log,     \* the answers to each command
  page     \* what each page shows, and of which log

vars == <<log, page>>

Closed  == [cmd |-> None, at |-> "closed", shown |-> <<>>]
Lost(c) == [cmd |-> c, at |-> "lost", shown |-> <<>>]

Init == log = [c \in Cmd |-> <<>>] /\ page = [p \in Page |-> Closed]

Follows(p, c) == page[p].at = "on" /\ page[p].cmd = c

(* An answer comes, and may be one too many for pages that are far behind.  *)
Add(c, a) ==
  /\ log' = [log EXCEPT ![c] = Append(@, a)]
  /\ \E lost \in SUBSET {p \in Page : Follows(p, c) /\ Len(log[c]) >= Len(page[p].shown) + Cap} :
       page' = [p \in Page |-> IF p \in lost THEN Lost(c) ELSE page[p]]

(* A page opens with all that is there, and waits for more unless that is   *)
(* all there will be.                                                       *)
Open(p, c) ==
  /\ page[p] = Closed
  /\ \E at \in {"on", "ended"} :
       /\ at = "on" <=> \A i \in 1 .. Len(log[c]) : log[c][i] # Final
       /\ page' = [page EXCEPT ![p] = [cmd |-> c, at |-> at, shown |-> log[c]]]
  /\ UNCHANGED log

(* It shows the next answer.                                                *)
Read(p, c) ==
  /\ Follows(p, c)
  /\ LET n == Len(page[p].shown) + 1 IN
     /\ n <= Len(log[c])
     /\ page' = [page EXCEPT ![p] = [cmd   |-> c,
                                     at    |-> IF log[c][n] = Final THEN "ended" ELSE "on",
                                     shown |-> Append(page[p].shown, log[c][n])]]
  /\ UNCHANGED log

Leave(p, c) ==
  /\ Follows(p, c)
  /\ page' = [page EXCEPT ![p] = [cmd |-> c, at |-> "ended", shown |-> page[p].shown]]
  /\ UNCHANGED log

Next ==
  \E c \in Cmd :
    \/ \E a \in Answer : Add(c, a)
    \/ \E p \in Page : Open(p, c) \/ Read(p, c) \/ Leave(p, c)

Spec == Init /\ [][Next]_vars
=============================================================================
