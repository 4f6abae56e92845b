----------------------------- MODULE MCRunbooks ----------------------------
(* Titles of runbooks for TLC.                                             *)
EXTENDS Runbooks

\* Three titles with one slug, one that is clipped, one that YAML quotes, and one whose slug
\* is cut after a "-".
MCSlugOf ==
  [t \in Titles |-> CASE t \in {"Pods", "PODS", " pods "} -> "pods"
                      [] t = "a: ---" -> "a" [] t = "x---y" -> "x-y" [] t = "long" -> "long-"]
MCReslug == [s \in {"pods", "a", "x-y", "long-"} |-> IF s = "long-" THEN "long" ELSE s]
=============================================================================
