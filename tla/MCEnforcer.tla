---------------------------- MODULE MCEnforcer ----------------------------
(***************************************************************************)
(* Instantiates Enforcer for TLC.  One protected resource t1 and one       *)
(* profile p1 suffice for a profile to protect, force-check or ignore the  *)
(* resource and to be created, changed, disabled and deleted concurrently  *)
(* with requests on t1; a second profile p2 lets two profiles govern one   *)
(* request.                                                                *)
(***************************************************************************)
EXTENDS Enforcer

CONSTANTS w1, w2, p1, p2, t1, n1, n2

MCNamespaces == {n1, n2}

\* Break-glass declared for namespace n1 only.
MCBreakGlass == {[scope |-> "Namespaced", namespaces |-> {n1}]}

ProfileSpec(d, pr, ig, fo) == [disabled |-> d, protect |-> pr, ignore |-> ig, force |-> fo]

ProtectT1 == ProfileSpec(FALSE, {t1}, {}, {})
ForceT1   == ProfileSpec(FALSE, {}, {}, {t1})
IgnoreT1  == ProfileSpec(FALSE, {}, {t1}, {})
NoRules   == ProfileSpec(FALSE, {}, {}, {})
DisabledProtectT1 == ProfileSpec(TRUE, {t1}, {}, {})

Req(kind, op, name, admin, skip, valid, ns, payload) ==
    [kind |-> kind, op |-> op, name |-> name, admin |-> admin, skip |-> skip,
     valid |-> valid, scope |-> "Namespaced", ns |-> ns, payload |-> payload]

\* Requests on the protected resource t1, from an ordinary user.
OtherRequests(nss) ==
    {Req("Other", op, t1, FALSE, "none", TRUE, ns, None) : op \in Ops, ns \in nss}

\* Profile changes, from an admin or a user, with the given payloads.
ProfileRequests(names, pls, admins) ==
    {Req("Profile", op, p, a, "none", TRUE, n1, pl) :
        op \in {"CREATE", "UPDATE"}, p \in names, a \in admins, pl \in pls}
    \cup {Req("Profile", "DELETE", p, a, "none", TRUE, n1, None) : p \in names, a \in admins}

\* --- decision: the full pipeline, two workers ---
DecisionRefs == {p1, p2}
DecisionPayloads == {ProtectT1, ForceT1}
DecisionRequests ==
    OtherRequests(MCNamespaces)
    \cup ProfileRequests({p1}, {ForceT1}, BOOLEAN)
    \cup {Req("Other", "UPDATE", t1, FALSE, s, TRUE, n1, None) : s \in {"dryrun", "unprocessed"}}
    \cup {Req("Profile", "UPDATE", p1, FALSE, "none", FALSE, n1, ForceT1),
          Req("Signature", "DELETE", t1, FALSE, "none", TRUE, n2, None)}
DecisionInit == [p \in DecisionRefs |-> ProtectT1]
\* --- tables: profile changes and requests on t1 ---
TableRefs == {p1, p2}
TablePayloads == {ProtectT1, ForceT1, IgnoreT1}
TableRequests ==
    ProfileRequests(TableRefs, TablePayloads, {TRUE})
    \cup {Req("Other", "UPDATE", t1, FALSE, "none", TRUE, n2, None)}
TableInit == [p \in TableRefs |-> IF p = p1 THEN ProtectT1 ELSE NoProfile]

\* --- lost update: two admins change two different profiles at once ---
LostUpdateRequests ==
    {Req("Profile", "UPDATE", p1, TRUE, "none", TRUE, n1, ForceT1),
     Req("Profile", "CREATE", p2, TRUE, "none", TRUE, n1, IgnoreT1)}

\* --- torn view: p1 moves t1 from protect to force-check while a user
\* updates t1 ---
TornRequests ==
    {Req("Profile", "UPDATE", p1, TRUE, "none", TRUE, n1, ForceT1),
     Req("Other", "UPDATE", t1, FALSE, "none", TRUE, n2, None)}

\* --- disabled: a profile that protects t1 is disabled by an admin ---
DisabledPayloads == {DisabledProtectT1}
DisabledRequests ==
    ProfileRequests({p1}, DisabledPayloads, {TRUE})
    \cup {Req("Other", "UPDATE", t1, FALSE, "none", TRUE, n2, None)}
OneProfileInit == [p \in {p1} |-> ProtectT1]

\* --- events: the same unsigned Update of t1, sent twice ---
EventRequests == {Req("Other", "UPDATE", t1, FALSE, "none", TRUE, n2, None)}

\* --- delete: a Delete of the protected resource t1 ---
DeleteRequests == {Req("Other", "DELETE", t1, FALSE, "none", TRUE, n2, None)}
=============================================================================
