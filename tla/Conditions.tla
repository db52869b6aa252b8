------------------------------ MODULE Conditions ------------------------------
(***************************************************************************)
(* The status conditions of an nchain.hanzo.ai resource and the upsert     *)
(* every controller changes them with (internal/status/condition.go).      *)
(*                                                                         *)
(* A condition list holds at most one entry per type, so it is a function  *)
(* from types to entries; Unset is a type that was never appended.  A      *)
(* message is abstracted to the count it quotes, NoCount for a fixed text. *)
(* The transition time is left out: it moves when the entry does.          *)
(***************************************************************************)
EXTENDS Naturals

ConditionTypes == {"Ready", "Progressing", "Degraded"}

NoCount == 0

Unset == [status |-> "Unset", reason |-> "", message |-> NoCount]

NoConditions == [t \in ConditionTypes |-> Unset]

Condition(reasons) ==
    [status : {"Unset", "True", "False"}, reason : reasons, message : Nat]

\* The entry is rewritten, its message included, only when the status or the
\* reason differs: a call that differs in the message alone changes nothing.
SetCondition(conds, type, status, reason, message) ==
    IF conds[type].status = status /\ conds[type].reason = reason
    THEN conds
    ELSE [conds EXCEPT ![type] = [status |-> status, reason |-> reason,
                                  message |-> message]]

IsReady(conds) == conds["Ready"].status = "True"
===============================================================================
