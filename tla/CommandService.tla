--------------------------- MODULE CommandService ---------------------------
(***************************************************************************)
(* What the methods of a Session promise their caller, with no wire, no    *)
(* tags, no channel and no loops: one command at a time, the data the      *)
(* server gave for it, and an outcome the server or the connection is      *)
(* answerable for.                                                         *)
(*                                                                         *)
(* The promise is what the code keeps, not what one would wish: a command  *)
(* of Collecting ends well on a NO, one of Collecting or Mailbox when the  *)
(* connection is gone, a field of SELECT's Mailbox may be that of an       *)
(* update, and APPEND says nothing of the server's verdict.                *)
(***************************************************************************)
EXTENDS Integers, Sequences

CONSTANTS
    Commands,       \* the names of the commands
    Checking,       \* those that check the status of their answer and no more
    Mailbox,        \* those that check it and return a Mailbox
    LastOnly,       \* those that return the last response only
    Lazy,           \* those that hand out their data while they run
    MaxRequests,    \* bound: commands
    MaxData         \* bound: data responses to a command

VARIABLES
    asked,      \* the number of commands so far
    running,    \* the command in progress, or "none"
    given,      \* how many data responses the server gave to each
    verdict,    \* the status the server answered each with
    refused,    \* the server sent an untagged NO
    gone,       \* the connection is gone
    faulty,     \* reading or writing failed at some time
    returned    \* what each command returned

vars == <<asked, running, given, verdict, refused, gone, faulty, returned>>

Requests == 1 .. MaxRequests

\* The commands that return what they collected up to their answer.
Collecting == Commands \ (Checking \cup Mailbox \cup {"append"})

Init ==
    /\ asked = 0
    /\ running = "none"
    /\ given = [q \in Requests |-> 0]
    /\ verdict = [q \in Requests |-> "none"]
    /\ refused = FALSE
    /\ gone = FALSE
    /\ faulty = FALSE
    /\ returned = << >>

-----------------------------------------------------------------------------
(* The server and the connection. *)
serverVars == <<given, verdict, refused, gone, faulty>>

Give(q) ==
    /\ verdict[q] = "none"
    /\ given[q] < MaxData
    /\ given' = [given EXCEPT ![q] = @ + 1]
    /\ UNCHANGED <<asked, running, verdict, refused, gone, faulty, returned>>

Judge(q, status) ==
    /\ verdict[q] = "none"
    /\ verdict' = [verdict EXCEPT ![q] = status]
    /\ UNCHANGED <<asked, running, given, refused, gone, faulty, returned>>

Refuse ==
    /\ refused' = TRUE
    /\ UNCHANGED <<asked, running, given, verdict, gone, faulty, returned>>

GoAway ==
    /\ gone' = TRUE
    /\ faulty' = TRUE
    /\ UNCHANGED <<asked, running, given, verdict, refused, returned>>

Falter ==
    /\ faulty' = TRUE
    /\ UNCHANGED <<asked, running, given, verdict, refused, gone, returned>>

-----------------------------------------------------------------------------
(* The caller. *)
Ask(name) ==
    /\ running = "none"
    /\ asked < MaxRequests
    /\ asked' = asked + 1
    /\ running' = name
    /\ UNCHANGED <<serverVars, returned>>

Return(name, outcome, data) ==
    /\ running' = "none"
    /\ returned' = Append(returned, [name |-> name, outcome |-> outcome, data |-> data])

AskInVain(name) ==
    /\ running = "none"
    /\ gone
    /\ asked < MaxRequests
    /\ asked' = asked + 1
    /\ Return(name, "io", << >>)
    /\ UNCHANGED serverVars

\* The data a command returns when it has read the first k responses.
DataUpTo(k) ==
    IF running \in LastOnly /\ k > 0 THEN <<k>> ELSE [i \in 1 .. k |-> i]

Answered == verdict[asked] # "none"

\* Success: of everything the server had to say, nothing is missing.
Succeed ==
    /\ \/ running \in Checking /\ verdict[asked] = "ok"
       \/ running \in Mailbox /\ (verdict[asked] = "ok" \/ gone)
       \/ running \in Collecting /\ (Answered \/ gone)
    /\ \/ Return(running, "ok", DataUpTo(given[asked]))
       \/ running = "select" /\ Return(running, "ok", << >>)
    /\ UNCHANGED <<asked, serverVars>>

\* GETQUOTA without a QUOTA is an error.
Miss ==
    /\ running = "get_quota"
    /\ Answered \/ gone
    /\ given[asked] = 0
    /\ Return(running, "absent", << >>)
    /\ UNCHANGED <<asked, serverVars>>

AppendReturns ==
    /\ running = "append"
    /\ \E outcome \in {"ok", "append"} : Return(running, outcome, << >>)
    /\ UNCHANGED <<asked, serverVars>>

\* The outcomes for which the server or the transport is to blame.  What a
\* checking command reports may be the NO to an earlier one, given up.
Blame(outcome) ==
    \/ outcome = "no" /\ running \in Checking /\ \E p \in 1 .. asked : verdict[p] = "no"
    \/ outcome = "no" /\ running \in Mailbox /\ verdict[asked] = "no"
    \/ outcome = "no" /\ running = "select" /\ refused
    \/ outcome = "lost" /\ running \in Checking /\ gone
    \/ outcome = "io" /\ faulty'

\* A command fails: only a lazy one has handed out what it had read by then.
Fail(outcome) ==
    /\ running # "none"
    /\ faulty' \in {faulty, outcome = "io"}
    /\ outcome = "cancelled" \/ Blame(outcome)
    /\ \E k \in 0 .. IF running \in Lazy THEN given[asked] ELSE 0 :
            Return(running, outcome, DataUpTo(k))
    /\ UNCHANGED <<asked, given, verdict, refused, gone>>

-----------------------------------------------------------------------------
Next ==
    \/ \E q \in Requests : Give(q) \/ \E status \in {"ok", "no"} : Judge(q, status)
    \/ Refuse \/ GoAway \/ Falter
    \/ \E name \in Commands : Ask(name) \/ AskInVain(name)
    \/ Succeed \/ Miss \/ AppendReturns
    \/ \E outcome \in {"no", "lost", "io", "cancelled"} : Fail(outcome)

Spec == Init /\ [][Next]_vars
=============================================================================
