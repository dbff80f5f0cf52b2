----------------------------- MODULE MCProvision -----------------------------
(* Two models over two slots, and a third that has none; two secrets.      *)
EXTENDS ModelPacks

M(kind, root, offset, isolated) ==
  [kind |-> kind, root |-> root, keySecret |-> IF kind = "emwp" THEN "k" ELSE "",
   repo |-> TRUE, offset |-> offset, isolated |-> isolated]

Odd == {M("none", "r1", 2, FALSE), [M("mwp", "r1", 2, FALSE) EXCEPT !.repo = FALSE],
        M("mwp", "r1", 0, FALSE), M("mwp", "r1", 3, TRUE), M("emwp", "r1", 7, FALSE), M("mwp", "r1", 8, FALSE),
        [M("emwp", "r1", 4, FALSE) EXCEPT !.keySecret = ""]}
Good(roots) == {M(k, r, 4, i) : k \in {"mwp", "emwp"}, r \in roots, i \in BOOLEAN}

Lists ==
  {<<>>} \cup {<<m>> : m \in Odd \cup {M("mpk", "r1", 6, FALSE)}}
  \cup {<<m, n>> : m \in Good({"r1"}), n \in Good({"r1", "r2"})}
  \cup {<<M("mwp", "r1", 4, TRUE), M("mwp", "r2", 4, TRUE), M("mwp", "r3", 4, TRUE)>>}

SomeConfigs ==
  [keyserver : BOOLEAN, debug : BOOLEAN, workload : {{"a"}, {"a", "k"}}, volumes : {{}},
   models : Lists]
  \cup [keyserver : {TRUE}, debug : {FALSE}, workload : {{}, {"a"}}, volumes : {{"k"}}, models : {<<>>}]
=============================================================================
