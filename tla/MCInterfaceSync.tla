--------------------------- MODULE MCInterfaceSync ---------------------------
(* InterfaceSync with two clients and two records; the editors are some of    *)
(* those of the admin client, and a check box on a view.                      *)
EXTENDS InterfaceSync

CONSTANTS c1, c2, r1, r2, d1, d2

MCForms ==
    {[source |-> "item", widget |-> w] : w \in {"QLineEdit", "QComboBox"}}
    \cup {[source |-> "view", widget |-> w] : w \in {"QLineEdit", "QCheckBox"}}
    \cup {[source |-> "combo", widget |-> "QCheckBox"],
          [source |-> "none", widget |-> "QLabel"]}

MCEdited == {<<"competition", "sport">>, <<"stage", "in_totals">>}
=============================================================================
