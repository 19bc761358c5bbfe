----------------------------- MODULE MCPkgNames -----------------------------
(* Two callers; packages that have the same name as each other, as a       *)
(* default import, and as a numbered name of one that is already named;      *)
(* files with a field of every kind, of each other's packages.               *)
EXTENDS GeneratedFile, TLC

MCPaths == {"cbor-gen", "go-cid", "a/cid", "b/cid", "c/cid1"}

MCDefaults == "go-cid" :> "cid" @@ "cbor-gen" :> "cbg"

MCName(p, k) ==
  LET own == IF p = "c/cid1" THEN "cid1" ELSE "cid"
  IN  IF k = 0 THEN own ELSE own \o ToString(k)

MCFiles ==
  { [pkg |-> "a/cid", fields |-> << <<"b/cid", "*struct">>, <<"b/cid", "struct">>,
                                    <<"a/cid", "scalar">>, <<"go-cid", "[]struct">> >>],
    [pkg |-> "b/cid", fields |-> << <<"c/cid1", "map">>, <<"a/cid", "[]struct">>,
                                    <<"go-cid", "cid">> >>],
    [pkg |-> "c/cid1", fields |-> << <<"cbor-gen", "deferred">>, <<"b/cid", "scalar">>,
                                     <<"a/cid", "bool">> >>],
    [pkg |-> "c/cid1", fields |-> << <<"a/cid", "struct">>, <<"a/cid", "unsupported">> >>] }
=============================================================================
