---------------------------------- MODULE FSM ----------------------------------
(***************************************************************************)
(* utility::fsm::FSM (fsm.hpp): how an event is dispatched over the rows   *)
(* of a transition table.  A row is a record with fields source, event,    *)
(* target, action and guard; the guard "none" always holds.                *)
(*                                                                         *)
(* processEvent filters the rows of the event (ByEvent), walks them in the *)
(* order of the table (EventHandler) and assigns the target after the      *)
(* action of the row has returned, so an action that throws leaves the     *)
(* state alone.                                                            *)
(***************************************************************************)
EXTENDS Naturals, Sequences

\* The table has no row for the event in the current state: noTransition.
NoRow == [source |-> "", event |-> "", target |-> "", action |-> "none", guard |-> "none"]

ByEvent(table, event) == {i \in DOMAIN table : table[i].event = event}

\* The rows the state and their guards allow, given the guards that hold.
Candidates(table, rows, state, holds) ==
  {i \in rows : table[i].source = state /\ table[i].guard \in holds \cup {"none"}}

\* EventHandler::execute: the first row that is allowed, if any.
Execute(table, rows, state, holds) ==
  LET allowed == Candidates(table, rows, state, holds)
  IN IF allowed = {} THEN NoRow
     ELSE table[CHOOSE i \in allowed : \A j \in allowed : i <= j]

RowFor(table, state, event, holds) == Execute(table, ByEvent(table, event), state, holds)
================================================================================
