------------------------------ MODULE MCReplay ------------------------------
(* Small instance of Replay: two buttons that look alike, one of them      *)
(* disabled, one that changes its text, one that reorders the page, a text *)
(* field that renders late and one that is hidden, a checkbox, a select;   *)
(* the text of a button and of a field is part of another's.               *)
EXTENDS Replay

MCNodes == {"add1", "add2", "fold", "sort", "mail", "trap", "news", "pick"}
MCKind == [add1 |-> "submit", add2 |-> "submit", fold |-> "toggle", sort |-> "sort",
           mail |-> "text", trap |-> "text", news |-> "check", pick |-> "select"]
MCLabel == [add1 |-> "Add", add2 |-> "Add", fold |-> "Sort more", sort |-> "Sort", mail |-> "Mail",
            trap |-> "Mail me", news |-> "News", pick |-> "Pick"]
MCOptions == <<[value |-> "a", label |-> "A"], [value |-> "1", label |-> "B"]>>
MCOrder == <<"add1", "mail", "add2", "fold", "sort", "trap", "news", "pick">>
MCMoved == <<"fold", "add1", "sort", "mail", "add2", "pick", "news", "trap">>
MCHidden == {"trap"}
MCDisabled == {"add2"}
MCLate == {"mail"}
MCNoisy == {"add1"}
MCContaining == {<<t, t>> : t \in {"Add", "Sort more", "Less", "Sort", "Mail", "Mail me", "News", "Pick"}}
              \cup {<<"Sort more", "Sort">>, <<"Mail me", "Mail">>}
MCSpecs == {[by |-> "value", spec |-> "A", number |-> FALSE],
            [by |-> "value", spec |-> "1", number |-> TRUE],
            [by |-> "index", spec |-> "0", number |-> TRUE]}
MCFills == {<<2>>, <<2, 6>>, <<6, 2>>, <<1>>}
MCAsked == {{"text"}, {"textGone"}, {"urlPattern"}, {"request", "hidden"}, {"noConsoleErrors"},
            {"selector", "value"}, {"selector", "checked"}, {"ref", "hidden"},
            {"ref", "value"}, {"textGone", "noConsoleErrors"}}
MCGoal == [text |-> "Less", url |-> "u0", value |-> "x"]
MCPixels == {0, 1}

=============================================================================
