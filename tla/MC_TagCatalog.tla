---------------------------- MODULE MC_TagCatalog ----------------------------
(* "#docs", the legacy spelling "#doc_s" of the same normal form, which is    *)
(* sanitized to "#doc-s", a three-letter "#api" and "#core".                  *)
EXTENDS TagCatalog

MCNames == {"docs", "doc_s", "doc-s", "api", "core"}
MCSanitized == [n \in MCNames |-> IF n = "doc_s" THEN "doc-s" ELSE n]
MCNormal == [n \in MCNames |-> IF n \in {"doc_s", "doc-s"} THEN "docs" ELSE n]
MCLists == {<<"doc_s">>, <<"core">>, <<"docs", "api">>}
MCLegacy == {<<"docs", "doc_s">>}
MCStem == [n \in MCNames |-> IF n = "api" THEN 0 ELSE IF n = "core" THEN 2 ELSE 1]
=============================================================================
