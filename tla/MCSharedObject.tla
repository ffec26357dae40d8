--------------------------- MODULE MCSharedObject ---------------------------
EXTENDS SharedObject

CONSTANTS k1, k2, m1, m2, is_disabled, conditions, description, group_id, postures

(* Fields of UpdatePolicyRequest, one of each kind and the switch.         *)
PolicyKind ==
    [f \in Fields |-> CASE f = group_id -> "plain"
                        [] f \in {is_disabled, conditions} -> "pointer"
                        [] f = description -> "null"
                        [] f = postures -> "node"]

Team(role1, mine1, role2, mine2) ==
    [role |-> [k \in Callers |-> IF k = k1 THEN role1 ELSE role2],
     mine |-> [k \in Callers |-> IF k = k1 THEN mine1 ELSE mine2]]

(* One enables and disables while another edits a field; one edits a field  *)
(* of every kind; two patch an ID each; one edits a field while      *)
(* another replaces the whole list; one edits the list as criteria.        *)
SomeTeams ==
    {Team("switcher", {is_disabled}, "editor", {description}),
     Team("editor", Fields \ {is_disabled}, "switcher", {}),
     Team("patcher", {m1}, "patcher", {m2}),
     Team("editor", {conditions}, "replacer", Members),
     Team("editor", Members \union {conditions}, "patcher", {})}
=============================================================================
