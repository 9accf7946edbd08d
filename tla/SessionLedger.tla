---------------------------- MODULE SessionLedger ----------------------------
(***************************************************************************)
(* What the conversation service promises its clients, without processes,  *)
(* reservations, locks, retries or failures.  A session is opened once,    *)
(* grows by one turn at a time, each turn computed from the whole ledger   *)
(* before it, and is closed for good.  A request id is answered with a     *)
(* turn of its own, and always with the same one.  Result memory knows     *)
(* facts of recorded turns only, and forgets a closed session as a whole.  *)
(***************************************************************************)
EXTENDS Naturals, Sequences

CONSTANTS Session, Request

VARIABLES
  status,   \* not yet opened, active, or deleted
  ledger,   \* the turns of a session, in order
  answers,  \* the turn each request id was answered with
  memory    \* the turns whose facts can be retrieved

ledgerVars == <<status, ledger, answers, memory>>

Init ==
  /\ status = [s \in Session |-> "absent"]
  /\ ledger = [s \in Session |-> <<>>]
  /\ answers = {}
  /\ memory = {}

Open(s) ==
  /\ status[s] = "absent"
  /\ status' = [status EXCEPT ![s] = "active"]
  /\ UNCHANGED <<ledger, answers, memory>>

Extend(s) ==
  /\ status[s] = "active"
  /\ \E r \in Request, f \in BOOLEAN :
       ledger' = [ledger EXCEPT ![s] =
                    Append(@, [req |-> r, basis |-> Len(ledger[s]), facts |-> f])]
  /\ UNCHANGED <<status, answers, memory>>

Close(s) ==
  /\ status[s] = "active"
  /\ status' = [status EXCEPT ![s] = "deleted"]
  /\ UNCHANGED <<ledger, answers, memory>>

\* Answers survive the session they belong to.
Answer(s) ==
  /\ \E n \in 1..Len(ledger[s]) :
       /\ \A a \in answers : ~(a.sess = s /\ a.req = ledger[s][n].req)
       /\ answers' = answers \cup {[sess |-> s, req |-> ledger[s][n].req, rev |-> n]}
  /\ UNCHANGED <<status, ledger, memory>>

\* Delivery is at least once, and may come late: even after Forget.
Remember(s) ==
  /\ \E n \in 1..Len(ledger[s]) :
       /\ ledger[s][n].facts
       /\ memory' = memory \cup {[sess |-> s, rev |-> n]}
  /\ UNCHANGED <<status, ledger, answers>>

Forget(s) ==
  /\ status[s] = "deleted"
  /\ memory' = {m \in memory : m.sess # s}
  /\ UNCHANGED <<status, ledger, answers>>

Next == \E s \in Session :
  Open(s) \/ Extend(s) \/ Close(s) \/ Answer(s) \/ Remember(s) \/ Forget(s)

Spec == Init /\ [][Next]_ledgerVars
=============================================================================
