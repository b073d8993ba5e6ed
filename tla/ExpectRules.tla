---------------------------- MODULE ExpectRules -----------------------------
(***************************************************************************)
(* What an expect request asks (routes_expect.go).  A request is the set   *)
(* of fields it gives; which condition is polled follows from the order in *)
(* which expectCondition looks at them.                                    *)
(***************************************************************************)
EXTENDS FiniteSets, Integers

Fields == {"text", "textGone", "urlPattern", "selector", "ref", "value", "request",
           "hidden", "enabled", "checked", "count", "noConsoleErrors"}

HasTarget(F) == F \cap {"selector", "ref"} # {}

(* The plain target counts as a condition only if neither a value nor a    *)
(* count takes its place.                                                  *)
PrimaryConditions(F) ==
    (F \cap {"text", "textGone", "urlPattern", "value", "request", "count"})
    \cup (IF HasTarget(F) /\ F \cap {"value", "count"} = {} THEN {"target"} ELSE {})

(* noConsoleErrors beside another condition: no error while it was waited  *)
(* for.                                                                    *)
Companion(F) == "noConsoleErrors" \in F /\ PrimaryConditions(F) # {}

Accepted(F) ==
    /\ "value" \in F => HasTarget(F)
    /\ \/ Cardinality(PrimaryConditions(F)) = 1
       \/ PrimaryConditions(F) = {} /\ "noConsoleErrors" \in F

FirstOf(order, F, otherwise) ==
    LET given == {i \in DOMAIN order : order[i] \in F}
    IN IF given = {} THEN otherwise
       ELSE order[CHOOSE i \in given : \A j \in given : i <= j]

(* expectCondition: the condition that is polled.                          *)
Polled(F) ==
    LET target == IF HasTarget(F)
                  THEN FirstOf(<<"checked", "count", "enabled", "hidden">>, F, "visible")
                  ELSE FirstOf(<<"request">>, F, "noConsoleErrors")
    IN FirstOf(<<"text", "textGone", "urlPattern", "value">>, F, target)

(* expectDescribe: the condition that is reported.                         *)
Described(F) ==
    LET rest == IF HasTarget(F) THEN "visible"
                ELSE FirstOf(<<"request">>, F, "noConsoleErrors")
    IN FirstOf(<<"text", "textGone", "urlPattern", "value", "checked", "count", "enabled",
                 "hidden">>, F, rest)

RecordedFieldsForget(F) == F \ {"ref", "checked"}    \* Mutant: a field is forgotten

(* recordExpect keeps every field but the ref, whose selector was not      *)
(* written to the request.                                                 *)
RecordedFields(F) == F \ {"ref"}

(* replayExpect reads them back and has no ref to give; it polls the       *)
(* condition, and does not look at a companion.                            *)
ReplayedFields(F) == F \cap (Fields \ {"ref"})

(* writeExpectSpec: what the exported spec asserts in its place.           *)
SpecAssertion(F) ==
    LET target == IF "selector" \notin F THEN "skipped"
                  ELSE IF "hidden" \in F THEN "hidden" ELSE "visible"
    IN FirstOf(<<"text", "textGone", "urlPattern", "value">>, F, target)

=============================================================================
