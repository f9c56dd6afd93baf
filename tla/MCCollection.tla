--------------------------- MODULE MCCollection ---------------------------
(* Instances of Collection for TLC. Documents meet only in the page order  *)
(* of a load, so one page that every rule finds and one uploaded file show *)
(* the interleavings.                                                      *)
EXTENDS Collection

CONSTANTS site, list, query, except, page

MCRules == {site, list, query, except}
MCRoot == [r \in {site} |-> "root"]
MCClaims == [r \in MCRules |-> {page}]
=============================================================================
