----------------------------- MODULE MCCallWire -----------------------------
(* Two scalars that go in, two that come out, two tables; values that look  *)
(* like the protocol's own words, and long enough for an extended record.   *)
EXTENDS CallWire

Field(n, direction, table) == [name |-> n, direction |-> direction, table |-> table]

MCDescs == {
  <<Field(1, "import", FALSE), Field(2, "tables", TRUE), Field(3, "changing", FALSE),
    Field(4, "tables", TRUE), Field(5, "export", FALSE)>>,
  <<Field(4, "tables", TRUE), Field(2, "tables", TRUE), Field(5, "export", FALSE),
    Field(3, "changing", FALSE)>>}

Rows == {<<>>, <<<<7, 769>>>>, <<<<65535, 0>>, <<771, 7>>>>}

MCParamSets ==
  {p @@ q : p \in [{2, 4} -> Rows], q \in {(1 :> <<65535, 0>>) @@ (3 :> <<>>), 3 :> <<515>>}}
  \union {<<>>}

MCResultSets ==
  {p @@ q : p \in [{2, 4} -> Rows],
            q \in {(5 :> <<65535, 0, 65535>>) @@ (3 :> <<513, 1>>), 5 :> <<>>}}
  \union {4 :> <<<<7, 7>>>>}
=============================================================================
