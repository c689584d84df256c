----------------------------- MODULE RuleTable -----------------------------
(***************************************************************************)
(* The RuleTable of the protect package: entries binding a rule to the     *)
(* profile reference that owns it.  The package is not part of src/, so    *)
(* these operators follow the spec (section 3 and 4.2).                    *)
(*                                                                         *)
(* Abstraction: a rule is identified with the resource it matches (the     *)
(* RuleMatcher is a pure function the decision engine only consumes), and  *)
(* a table is the set of its <<rule, ref>> entries.  Match returns the     *)
(* union of the references of every matching entry, so neither the order   *)
(* of entries nor duplicates change what Match returns.                    *)
(***************************************************************************)

EmptyTable == {}

\* Add(rules, ref): one entry per rule, each bound to ref.
Add(table, rules, ref) == table \cup {<<r, ref>> : r \in rules}

\* Remove(ref): deletes every entry bound to ref; a no-op when ref is absent.
Remove(table, ref) == {e \in table : e[2] # ref}

\* Merge(other): the entries of both tables.
Merge(table, other) == table \cup other

\* Match(fields): the references of all matching entries (never first-match).
\* The request is matched when the returned set is non-empty.
Match(table, target) == {e[2] : e \in {x \in table : x[1] = target}}

=============================================================================
