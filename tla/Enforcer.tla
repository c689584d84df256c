------------------------------ MODULE Enforcer ------------------------------
(***************************************************************************)
(* The admission decision engine of the integrity enforcer                 *)
(* (enforcer/pkg/control/enforcer/handler.go, RequestHandler.Run) together *)
(* with the shared state it reads and writes: the three persisted rule     *)
(* tables (enforcer/pkg/control/config/loader.go, RuleTableLoader), the    *)
(* ResourceSigningProfile objects and their status.                        *)
(*                                                                         *)
(* Every worker handles one admission request at a time, as one webhook    *)
(* call does.  A step of a worker ends at each read or write of shared     *)
(* state, so concurrent requests interleave exactly where the code talks   *)
(* to the cluster.  The signature verifier and the mutation checker are    *)
(* external: their results are chosen nondeterministically.  The API      *)
(* server, which persists an admitted object after the webhook answered,   *)
(* is the Commit step.                                                     *)
(***************************************************************************)
EXTENDS Naturals, FiniteSets, Sequences, SequencesExt

CONSTANTS
    Workers,        \* concurrent webhook calls
    Refs,           \* ResourceSigningProfile names (profile references)
    Targets,        \* ordinary resources; a rule is the resource it matches
    Namespaces,     \* request namespaces, for break-glass scoping
    Payloads,       \* profile specs a client may submit
    Requests,       \* admission requests the clients may send
    InitProfiles,   \* the profiles stored when the server starts
    BreakGlassConditions, \* SignPolicy.Spec.SignPolicy.BreakGlass
    Modes,          \* possible values of config.Mode == DetectMode
    WellFormedClients, \* clients only Create absent and Update/Delete present profiles
    GetMayFail,     \* a profile Get in GetByReferences may return an error
    SignPolicyMayFail, \* the List of SignPolicyLoader.Load may return an error
    MaxRequests,    \* bound on the number of requests explored
    SigResults,     \* the verifier answers explored, a subset of SigOutcomes
    MutResults,     \* the mutation checker answers explored, a subset of MutOutcomes
    NoProfile,      \* model value: no stored profile under this name
    EmptyProfile,   \* model value: the empty profile GetByReferences adds
    None            \* model value: no value

RT == INSTANCE RuleTable

\* The three persisted tables, in the order RuleTableLoader.Update handles them.
Kinds == {"protect", "ignore", "force"}

IEKinds == {"Profile", "Signature"}     \* apis.integrityenforcer.io kinds
Ops == {"CREATE", "UPDATE", "DELETE"}

\* Outcomes of the external collaborators for one profile.  "abort" is an
\* error returned by the evaluator itself, which makes Run abort.
\* A mutation check that did not run (Checked = false) acts as "mutated".
SigOutcomes == {"valid", "invalid", "nopolicy", "nosig", "error", "unchecked", "abort"}
MutOutcomes == {"unmutated", "mutated", "abort"}

ASSUME SigResults \subseteq SigOutcomes /\ MutResults \subseteq MutOutcomes

\* The reason classified from the verifier's error message prefix.
SigErrorReason == [invalid |-> "INVALID_SIG", nopolicy |-> "NO_POLICY",
                   nosig |-> "NO_SIG", error |-> "ERROR"]

\* Error messages, abstracted to the verifier error that produced them.
ErrMessages == {""} \cup DOMAIN SigErrorReason

PSEmpty == [denyCount |-> 0, summary |-> <<>>, latest |-> <<>>]

PS == INSTANCE ProfileStatus WITH GVKs <- Targets, Messages <- ErrMessages,
        MaxCalls <- MaxRequests, status <- PSEmpty, history <- <<>>

\* The initial ctx.Result.SignatureEvalResult, with Allow = false.
Unset == "unset"

\* A nil *SignatureEvalResult: evalSignature returned an error.
Nil == "nil"

-----------------------------------------------------------------------------
(* Classification of the request (handler.go). *)

checkIfDryRunAdmission(r) == r.skip = "dryrun"
\* A request matching a configured unprocessed pattern.
checkIfUnprocessedInIE(r) == r.skip = "unprocessed"

checkIfIEResource(r) == r.kind \in IEKinds
checkIfProfileResource(r) == r.kind = "Profile"
\* checkIfIEAdminRequest \/ checkIfIEServerRequest
IsIEAdmin(r) == r.admin

\* validateIEResource: deletes pass; otherwise the object must unmarshal.
validateIEResource(r) == r.op = "DELETE" \/ r.valid

\* CheckIfBreakGlassEnabled: scope and namespace of the request against
\* the SignPolicy's break-glass conditions.
CheckIfBreakGlassEnabled(r) ==
    IF r.scope = "Namespaced"
    THEN \E d \in BreakGlassConditions :
            d.scope \in {"Undefined", "Namespaced"} /\ r.ns \in d.namespaces
    ELSE \E d \in BreakGlassConditions : d.scope = "Cluster"

-----------------------------------------------------------------------------
(* Evaluation of the matched profiles (Run, the loop over signingProfiles). *)

\* One iteration: the signature check, then, if it did not permit, the
\* mutation check for an Update of a non-IE resource.
EvalProfile(p, r, so, mo) ==
    LET sigAbort  == so[p] = "abort"
        sigAllow  == so[p] = "valid"
        sigReason == IF so[p] \in DOMAIN SigErrorReason THEN SigErrorReason[so[p]]
                     ELSE IF sigAllow THEN "VALID_SIG" ELSE "UNEXPECTED"
        tryMut    == ~sigAbort /\ ~sigAllow /\ r.op = "UPDATE" /\ ~checkIfIEResource(r)
        unmutated == tryMut /\ mo[p] = "unmutated"
    IN  [allowed |-> sigAllow \/ unmutated,
         reason  |-> IF unmutated THEN "NO_MUTATION" ELSE sigReason,
         msg     |-> IF so[p] \in DOMAIN SigErrorReason THEN so[p] ELSE "",
         aborted |-> sigAbort \/ (tryMut /\ mo[p] = "abort"),
         sig     |-> IF sigAbort THEN Nil ELSE so[p]]

\* State of the loop before any profile is evaluated.
NoEval == [allowed |-> FALSE, reason |-> "UNEXPECTED", msg |-> "",
           aborted |-> FALSE, denying |-> None, sig |-> Unset]

\* Mutant of EvalLoop: stops at the first profile that permits.
RECURSIVE EvalLoopFirstPass(_, _, _, _)
EvalLoopFirstPass(ps, r, so, mo) ==
    IF ps = <<>> THEN NoEval
    ELSE LET e == EvalProfile(Head(ps), r, so, mo) IN
         IF ~e.allowed THEN e @@ [denying |-> Head(ps)]
         ELSE e @@ [denying |-> None]

\* The loop: the first profile that does not permit is the denying profile
\* and ends the loop; when all permit, the LAST profile's reason is used.
RECURSIVE EvalLoop(_, _, _, _)
EvalLoop(ps, r, so, mo) ==
    IF ps = <<>> THEN NoEval
    ELSE LET e == EvalProfile(Head(ps), r, so, mo) IN
         IF ~e.allowed THEN e @@ [denying |-> Head(ps)]
         ELSE IF Len(ps) = 1 THEN e @@ [denying |-> None]
         ELSE EvalLoop(Tail(ps), r, so, mo)

-----------------------------------------------------------------------------
(* Final decision (evalFinalDecision, evalFinalDecisionForIEResource). *)

Decision(allow, verified, reason, msg) ==
    [allow |-> allow, verified |-> verified, reason |-> reason, msg |-> msg,
     byDetect |-> FALSE, byBreakGlass |-> FALSE, label |-> "none"]

\* The decision before overrides, common to both variants.
Evaluated(allowed, evalReason, errMsg) ==
    IF allowed THEN Decision(TRUE, TRUE, evalReason, evalReason)
    ELSE Decision(FALSE, FALSE, evalReason, errMsg)

\* A denial becomes an allow in detect-only mode, then (general resources
\* only) under break-glass; an UNEXPECTED evalReason is forced back.
Override(dr, evalReason, detect, breakGlass) ==
    LET o == IF ~dr.allow /\ detect
             THEN [Decision(TRUE, FALSE, "DETECTION", "DETECTION") EXCEPT !.byDetect = TRUE]
             ELSE IF ~dr.allow /\ breakGlass
             THEN [Decision(TRUE, FALSE, "BREAK_GLASS", "BREAK_GLASS") EXCEPT !.byBreakGlass = TRUE]
             ELSE dr
    IN  IF evalReason = "UNEXPECTED" THEN [o EXCEPT !.reason = "UNEXPECTED"] ELSE o

evalFinalDecision(r, allowed, evalReason, errMsg, aborted, detect, breakGlass) ==
    LET dr == IF r.op = "DELETE" THEN Decision(TRUE, TRUE, "SKIP_DELETE", "SKIP_DELETE")
              ELSE IF aborted THEN Decision(FALSE, FALSE, "ABORTED", "abort")
              ELSE Evaluated(allowed, evalReason, errMsg)
    IN  Override(dr, evalReason, detect, breakGlass)

\* Mutant of evalFinalDecisionForIEResource: break-glass also applies.
FinalForIEWithBreakGlass(r, allowed, evalReason, errMsg, aborted, detect, breakGlass) ==
    LET dr == IF aborted THEN Decision(FALSE, FALSE, "ABORTED", "abort")
              ELSE IF r.op = "DELETE" /\ r.kind # "Signature" /\ ~IsIEAdmin(r)
              THEN Decision(FALSE, TRUE, "BLOCK_DELETE", "BLOCK_DELETE")
              ELSE Evaluated(allowed, evalReason, errMsg)
    IN  Override(dr, evalReason, detect, breakGlass)

evalFinalDecisionForIEResource(r, allowed, evalReason, errMsg, aborted, detect, breakGlass) ==
    LET dr == IF aborted THEN Decision(FALSE, FALSE, "ABORTED", "abort")
              ELSE IF r.op = "DELETE" /\ r.kind # "Signature" /\ ~IsIEAdmin(r)
              THEN Decision(FALSE, TRUE, "BLOCK_DELETE", "BLOCK_DELETE")
              ELSE Evaluated(allowed, evalReason, errMsg)
    IN  Override(dr, evalReason, detect, FALSE)

\* createPatch: the integrity label the patch sets, or "remove" when it
\* deletes the label keys; no patch for a denial.  A verified allow reads
\* SignatureEvalResult.Allow, which panics ("panic") when the result is nil.
createPatch(dr, sig) ==
    IF ~dr.allow THEN "none"
    ELSE IF ~dr.verified THEN "unverified"
    ELSE IF sig = Nil THEN "panic"
    ELSE IF sig = "valid" THEN "verified"
    ELSE "remove"

\* The end of a call that panicked: no admission response is sent.
Panicked == [Decision(FALSE, FALSE, "UNEXPECTED", "") EXCEPT !.label = "panic"]

\* SignPolicyLoader.GetData on the request's fresh Loader: TRUE when the
\* SignPolicy list is loaded, FALSE when Load's List failed on a cache miss
\* and Data stays nil.  Once loaded, later calls in the request reuse it.
SignPolicyLoaded(loadedBefore) ==
    IF SignPolicyMayFail /\ ~loadedBefore THEN BOOLEAN ELSE {TRUE}

-----------------------------------------------------------------------------
(* Stored profiles (RPPLoader) and the rule tables derived from them. *)

\* Mutant of GetByReferences: only one of the profiles found is kept.
GetByReferencesFirstOnly(store, refs, failed) ==
    LET data == {p \in refs \ failed : store[p] # NoProfile}
    IN  IF data = {} THEN {EmptyProfile} ELSE {CHOOSE p \in data : TRUE}

\* RPPLoader.GetByReferences with MergeDefaultProfiles, standing in for the
\* RSPLoader.GetByReferences Run calls (not under src/): the referenced
\* profiles whose Get succeeds, or one empty profile when none does; a
\* failed Get (NotFound, or an error in the set failed) is only logged.
\* Merging the common profile keeps Disabled.
GetByReferences(store, refs, failed) ==
    LET data == {p \in refs \ failed : store[p] # NoProfile}
    IN  IF data = {} THEN {EmptyProfile} ELSE data

\* Loader.SigningProfile: the resolved profiles that are not disabled.
SigningProfile(store, refs, failed) ==
    {p \in GetByReferences(store, refs, failed) : p = EmptyProfile \/ ~store[p].disabled}

\* InitRuleTable / InitIgnoreRuleTable / InitForceCheckRuleTable: the
\* merge of the single tables of every enabled profile.
InitRuleTable(store, kind) ==
    UNION {RT!Add(RT!EmptyTable, store[p][kind], p) :
              p \in {q \in Refs : store[q] # NoProfile /\ ~store[q].disabled}}

\* createOrUpdateEvent names the event after the request's operation, kind,
\* name and namespace (the server's namespace for a cluster-scoped one).
EventKey(r) == <<r.op, r.kind, r.name, IF r.scope = "Cluster" THEN None ELSE r.ns>>

EventKeys == {EventKey(r) : r \in Requests}

VARIABLES
    tables,   \* the persisted tables: kind -> set of <<rule, ref>>
    store,    \* ResourceSigningProfile objects: ref -> spec or NoProfile
    status,   \* their Status: ref -> ProfileStatus record
    detect,   \* config.Mode == DetectMode
    pc,       \* worker -> step of Run it is about to take
    req,      \* worker -> the request being handled
    ctx,      \* worker -> the handler's local state and CheckContext
    tmp,      \* worker -> tables read by RuleTableLoader.Update, not yet written
    count,    \* number of requests received so far
    events,   \* the deny Events: key -> Count, 0 when absent
    denied,   \* ghost: key -> denials that reached createOrUpdateEvent
    charged   \* ghost: ref -> denials charged to the profile since its Create

evtVars == <<events, denied>>
vars == <<tables, store, status, detect, pc, req, ctx, tmp, count, events, denied, charged>>

\* RuleTableLoader.Update's straight-line steps: three Gets with Remove
\* (and Add), then three writes, each of one table, in the code's order.
ReadStep  == [protect |-> "readProtect",  ignore |-> "readIgnore",  force |-> "readForce"]
WriteStep == [protect |-> "writeProtect", ignore |-> "writeIgnore", force |-> "writeForce"]
UpdateNext == [readProtect |-> "readIgnore", readIgnore |-> "readForce",
               readForce |-> "writeProtect", writeProtect |-> "writeIgnore",
               writeIgnore |-> "writeForce", writeForce |-> "commit"]

Steps == {"idle", "force", "ignore", "protect", "resolve", "decide",
          "evtGet", "evtWrite", "commit"} \cup DOMAIN UpdateNext

\* The handler's state at the start of Run.
CtxInit == [ie |-> FALSE, forced |-> FALSE, refs |-> {}, profiles |-> {},
            passed |-> {}, copy |-> None, dr |-> None, evt |-> 0,
            views |-> {}] @@ NoEval

Profile == [disabled : BOOLEAN, protect : SUBSET Targets,
            ignore : SUBSET Targets, force : SUBSET Targets]

Init ==
    /\ store = InitProfiles
    /\ tables = [k \in Kinds |-> InitRuleTable(InitProfiles, k)]
    /\ status = [p \in Refs |-> PSEmpty]
    /\ detect \in Modes
    /\ pc = [w \in Workers |-> "idle"]
    /\ req = [w \in Workers |-> None]
    /\ ctx = [w \in Workers |-> CtxInit]
    /\ tmp = [w \in Workers |-> tables]
    /\ count = 0
    /\ events = [k \in EventKeys |-> 0]
    /\ denied = [k \in EventKeys |-> 0]
    /\ charged = [p \in Refs |-> 0]

-----------------------------------------------------------------------------
(* The steps of RequestHandler.Run. *)

\* RuleTableLoader.Load through Loader.ProtectRules and the like: every
\* lookup reads the persisted table afresh.
LoadRules(kind) == tables[kind]

\* checkIfForced, checkIfIgnored, checkIfProtected: the references matched
\* by the request in one table; matched iff the set is non-empty.
checkIfForced(r) == RT!Match(LoadRules("force"), r.name)
checkIfIgnored(r) == RT!Match(LoadRules("ignore"), r.name)
checkIfProtected(r) == RT!Match(LoadRules("protect"), r.name)

\* Ghost: what Run's three lookups would classify the request as if all of
\* them read the tables T of one moment: the forced references with the
\* protecting ones, nothing when ignored or unprotected, else the protecting
\* references.
Classify(T, r) ==
    LET f == RT!Match(T["force"], r.name)
        p == RT!Match(T["protect"], r.name)
    IN  IF f # {} THEN f \cup p
        ELSE IF RT!Match(T["ignore"], r.name) # {} THEN {} ELSE p

\* Ghost: the profile changes that may have reached the tables and are not
\* yet persisted, and the stored profiles with any subset of them applied
\* whole, as an atomic replacement of all three tables would leave them.
InFlightChanges == {w \in Workers : /\ pc[w] \in DOMAIN UpdateNext \cup {"commit"}
                                   /\ req[w] # None /\ req[w].kind = "Profile"}
StoreWith(S) ==
    [p \in Refs |-> IF \E w \in S : req[w].name = p
                    THEN LET w == CHOOSE v \in S : req[v].name = p
                         IN  IF req[w].op = "DELETE" THEN NoProfile ELSE req[w].payload
                    ELSE store[p]]

\* Ghost: at each lookup, what the request would be classified as against
\* any such whole-change state of the tables.
Viewed(w) == ctx[w].views \cup
                 {Classify([kind \in Kinds |-> InitRuleTable(StoreWith(S), kind)], req[w]) :
                      S \in SUBSET InFlightChanges}

\* CheckIfDetectOnly: config.Mode == DetectMode.
CheckIfDetectOnly == detect

\* A client that only creates absent and updates or deletes present profiles.
Sendable(r) ==
    IF WellFormedClients /\ r.kind = "Profile"
    THEN (r.op = "CREATE") = (store[r.name] = NoProfile)
    ELSE TRUE

Answer(w, dr) == ctx' = [ctx EXCEPT ![w] = [CtxInit EXCEPT !.dr = dr]]

\* Run up to the rule-table lookups: dry-run and unprocessed requests are
\* allowed at once; an IE resource is validated and an admin request is
\* allowed as IE_ADMIN; any other IE request is protected with no profile
\* reference.
Receive(w, r) ==
    /\ pc[w] = "idle"
    /\ count < MaxRequests
    /\ Sendable(r)
    /\ count' = count + 1
    /\ req' = [req EXCEPT ![w] = r]
    /\ IF checkIfDryRunAdmission(r) \/ checkIfUnprocessedInIE(r) THEN
          /\ Answer(w, Decision(TRUE, FALSE, "NONE", r.skip))
          /\ pc' = [pc EXCEPT ![w] = "commit"]
       ELSE IF checkIfIEResource(r) /\ ~validateIEResource(r) THEN
          /\ Answer(w, Decision(FALSE, FALSE, "NONE", "invalid"))
          /\ pc' = [pc EXCEPT ![w] = "commit"]
       ELSE IF checkIfIEResource(r) /\ IsIEAdmin(r) THEN
          /\ ctx' = [ctx EXCEPT ![w] = [CtxInit EXCEPT !.ie = TRUE,
                                          !.allowed = TRUE, !.reason = "IE_ADMIN"]]
          /\ pc' = [pc EXCEPT ![w] = "decide"]
       ELSE IF checkIfIEResource(r) THEN
          /\ ctx' = [ctx EXCEPT ![w] = [CtxInit EXCEPT !.ie = TRUE]]
          /\ pc' = [pc EXCEPT ![w] = "resolve"]
       ELSE
          /\ ctx' = [ctx EXCEPT ![w] = CtxInit]
          /\ pc' = [pc EXCEPT ![w] = "force"]
    /\ UNCHANGED <<tables, store, status, charged, detect, tmp, evtVars>>

\* checkIfForced: loads the ForceCheck table.
CheckForced(w) ==
    LET m == checkIfForced(req[w]) IN
    /\ pc[w] = "force"
    /\ ctx' = [ctx EXCEPT ![w].forced = (m # {}), ![w].refs = m,
                           ![w].views = Viewed(w)]
    /\ pc' = [pc EXCEPT ![w] = IF m # {} THEN "protect" ELSE "ignore"]
    /\ UNCHANGED <<tables, store, status, charged, detect, req, tmp, count, evtVars>>

\* checkIfIgnored (only when not forced): a match allows the request, and
\* as it is then neither forced nor protected its reason is NOT_PROTECTED.
CheckIgnored(w) ==
    LET ignored == checkIfIgnored(req[w]) # {} IN
    /\ pc[w] = "ignore"
    /\ IF ignored
       THEN /\ ctx' = [ctx EXCEPT ![w].allowed = TRUE, ![w].reason = "NOT_PROTECTED",
                                   ![w].views = Viewed(w)]
            /\ pc' = [pc EXCEPT ![w] = "decide"]
       ELSE /\ ctx' = [ctx EXCEPT ![w].views = Viewed(w)]
            /\ pc' = [pc EXCEPT ![w] = "protect"]
    /\ UNCHANGED <<tables, store, status, charged, detect, req, tmp, count, evtVars>>

\* checkIfProtected: loads the protect table; a request neither forced nor
\* protected is allowed as NOT_PROTECTED.
CheckProtected(w) ==
    LET m == checkIfProtected(req[w]) IN
    /\ pc[w] = "protect"
    /\ IF ~ctx[w].forced /\ m = {}
       THEN /\ ctx' = [ctx EXCEPT ![w].allowed = TRUE, ![w].reason = "NOT_PROTECTED",
                                   ![w].views = Viewed(w)]
            /\ pc' = [pc EXCEPT ![w] = "decide"]
       ELSE /\ ctx' = [ctx EXCEPT ![w].refs = @ \cup m, ![w].views = Viewed(w)]
            /\ pc' = [pc EXCEPT ![w] = "resolve"]
    /\ UNCHANGED <<tables, store, status, charged, detect, req, tmp, count, evtVars>>

\* Loads the referenced profiles and runs the evaluation loop over them, in
\* the order the references came back, with the verifier's and mutation
\* checker's answers chosen freely.  The denying profile is the copy read
\* here, status included.  The first evalSignature loads the SignPolicy
\* through MergedSignPolicy, which panics when that load failed.
Evaluate(w) ==
    /\ pc[w] = "resolve"
    /\ \E failed \in IF GetMayFail THEN SUBSET ctx[w].refs ELSE {{}} :
       LET profiles == SigningProfile(store, ctx[w].refs, failed) IN
       \E loaded \in SignPolicyLoaded(profiles = {}) :
       IF ~loaded
       THEN \* MergedSignPolicy reads spol.Spec of the nil SignPolicy.
            /\ ctx' = [ctx EXCEPT ![w].dr = Panicked]
            /\ pc' = [pc EXCEPT ![w] = "commit"]
       ELSE
       \E order \in SetToSeqs(profiles), so \in [profiles -> SigResults],
          mo \in [profiles -> MutResults] :
          LET res == EvalLoop(order, req[w], so, mo) IN
          /\ ctx' = [ctx EXCEPT ![w] =
                    [@ EXCEPT !.allowed = res.allowed, !.reason = res.reason,
                              !.msg = res.msg, !.aborted = res.aborted,
                              !.denying = res.denying, !.sig = res.sig,
                              !.profiles = profiles,
                              !.passed = {p \in profiles :
                                            EvalProfile(p, req[w], so, mo).allowed},
                              !.copy = IF res.denying \in Refs
                                       THEN status[res.denying] ELSE None]]
          /\ pc' = [pc EXCEPT ![w] = "decide"]
    /\ UNCHANGED <<tables, store, status, charged, detect, req, tmp, count, evtVars>>

\* The rest of Run: break-glass (no condition when the SignPolicy cannot
\* be loaded) and detect-only flags, the final decision,
\* the patch (computed for every request; a Delete's is not attached), and
\* for a denial of a general resource the denying profile's status,
\* updated on the copy read by Evaluate and written back.  An allowed
\* profile request goes on to rewrite the rule tables.  A panic in
\* createPatch ends the call there: neither side effect happens and the API
\* server gets no answer (Commit then persists nothing, as only ordinary
\* resources reach that path).
Decide(w) ==
    \E loaded \in SignPolicyLoaded(ctx[w].profiles # {}) :
    LET r     == req[w]
        c     == ctx[w]
        bg    == loaded /\ CheckIfBreakGlassEnabled(r)
        fin   == IF c.ie
                 THEN evalFinalDecisionForIEResource(r, c.allowed, c.reason, c.msg,
                                                     c.aborted, CheckIfDetectOnly, bg)
                 ELSE evalFinalDecision(r, c.allowed, c.reason, c.msg,
                                        c.aborted, CheckIfDetectOnly, bg)
        dr    == [fin EXCEPT !.label = createPatch(fin, c.sig)]
        crash == dr.label = "panic"
    IN
    /\ pc[w] = "decide"
    /\ ctx' = [ctx EXCEPT ![w].dr = dr]
    /\ pc' = [pc EXCEPT ![w] =
             IF crash THEN "commit"
             ELSE IF dr.allow /\ c.ie /\ checkIfProfileResource(r) THEN ReadStep["protect"]
             ELSE IF ~dr.allow /\ ~c.ie /\ c.denying # None THEN "evtGet"
             ELSE "commit"]
    /\ status' = IF ~crash /\ ~dr.allow /\ ~c.ie /\ c.denying \in Refs
                 THEN [status EXCEPT ![c.denying] = PS!UpdateStatus(c.copy, r.name, c.msg)]
                 ELSE status
    /\ charged' = IF ~crash /\ ~dr.allow /\ ~c.ie /\ c.denying \in Refs
                  THEN [charged EXCEPT ![c.denying] = @ + 1] ELSE charged
    /\ UNCHANGED <<tables, store, detect, req, tmp, count, evtVars>>

\* The table a worker in RuleTableLoader.Update reads or writes next.
CurKind(w) == CHOOSE kind \in DOMAIN ReadStep :
                  pc[w] \in {ReadStep[kind], WriteStep[kind]}

\* The entries the new table holds for the request's profile.
NewEntries(w) ==
    IF req[w].op \in {"CREATE", "UPDATE"} THEN req[w].payload[CurKind(w)] ELSE {}

\* Mutant of TableRead: the entries of the old profile are kept.
TableReadNoRemove(w) ==
    /\ pc[w] \in {ReadStep[kind] : kind \in DOMAIN ReadStep}
    /\ tmp' = [tmp EXCEPT ![w][CurKind(w)] =
                  RT!Add(tables[CurKind(w)], NewEntries(w), req[w].name)]
    /\ pc' = [pc EXCEPT ![w] = UpdateNext[pc[w]]]
    /\ UNCHANGED <<tables, store, status, charged, detect, req, ctx, count, evtVars>>

\* RuleTableLoader.Update, first half: GetRuleTable of one table, Remove of
\* the profile's reference, and for Create/Update Add of the new rules.
\* No lock or version is taken.
TableRead(w) ==
    /\ pc[w] \in {ReadStep[kind] : kind \in DOMAIN ReadStep}
    /\ tmp' = [tmp EXCEPT ![w][CurKind(w)] =
                  RT!Add(RT!Remove(tables[CurKind(w)], req[w].name),
                         NewEntries(w), req[w].name)]
    /\ pc' = [pc EXCEPT ![w] = UpdateNext[pc[w]]]
    /\ UNCHANGED <<tables, store, status, charged, detect, req, ctx, count, evtVars>>

\* RuleTableLoader.Update, second half: RuleTable.Update of one table,
\* overwriting whatever is stored, its result ignored.  The webhook
\* answers after the third.
TableWrite(w) ==
    /\ pc[w] \in {WriteStep[kind] : kind \in DOMAIN WriteStep}
    /\ tables' = [tables EXCEPT ![CurKind(w)] = tmp[w][CurKind(w)]]
    /\ pc' = [pc EXCEPT ![w] = UpdateNext[pc[w]]]
    /\ UNCHANGED <<store, status, charged, detect, req, ctx, tmp, count, evtVars>>

\* createOrUpdateEvent, first half: Get of the event; a missing one reads
\* as Count 0.
EventGet(w) ==
    LET key == EventKey(req[w]) IN
    /\ pc[w] = "evtGet"
    /\ ctx' = [ctx EXCEPT ![w].evt = events[key]]
    /\ denied' = [denied EXCEPT ![key] = @ + 1]
    /\ pc' = [pc EXCEPT ![w] = "evtWrite"]
    /\ UNCHANGED <<tables, store, status, charged, detect, req, tmp, count, events>>

\* createOrUpdateEvent, second half: Count + 1 of what Get returned, sent as
\* Create when Get found nothing (AlreadyExists if it exists by now), else
\* as Update carrying the resourceVersion read (Conflict if it changed).
\* A failed write is only logged.
EventWrite(w) ==
    LET key  == EventKey(req[w])
        seen == ctx[w].evt
    IN
    /\ pc[w] = "evtWrite"
    /\ events' = IF events[key] = seen THEN [events EXCEPT ![key] = seen + 1]
                 ELSE events
    /\ pc' = [pc EXCEPT ![w] = "commit"]
    /\ UNCHANGED <<tables, store, status, charged, detect, req, ctx, tmp, count, denied>>

\* The API server after the webhook answered: an allowed request that is
\* not a dry run is persisted unless the object's existence contradicts
\* the operation (AlreadyExists, NotFound).  A new profile starts with an
\* empty status.
Commit(w) ==
    LET r  == req[w]
        ok == /\ ctx[w].dr.allow
              /\ ctx[w].dr.label # "panic"
              /\ ~checkIfDryRunAdmission(r)
              /\ IF r.kind = "Profile"
                 THEN (r.op = "CREATE") = (store[r.name] = NoProfile)
                 ELSE TRUE
    IN
    /\ pc[w] = "commit"
    /\ \/ /\ ok
          /\ store' = IF r.kind = "Profile"
                      THEN [store EXCEPT ![r.name] =
                              IF r.op = "DELETE" THEN NoProfile ELSE r.payload]
                      ELSE store
          /\ status' = IF r.kind = "Profile" /\ r.op = "CREATE"
                       THEN [status EXCEPT ![r.name] = PSEmpty] ELSE status
          /\ charged' = IF r.kind = "Profile" /\ r.op = "CREATE"
                        THEN [charged EXCEPT ![r.name] = 0] ELSE charged
       \/ /\ ~ok
          /\ UNCHANGED <<store, status, charged>>
    /\ pc' = [pc EXCEPT ![w] = "idle"]
    /\ req' = [req EXCEPT ![w] = None]
    /\ ctx' = [ctx EXCEPT ![w] = CtxInit]
    /\ UNCHANGED <<tables, detect, tmp, count, evtVars>>

\* All requests of the model have been answered and persisted.
Finished ==
    /\ count = MaxRequests
    /\ \A w \in Workers : pc[w] = "idle"
    /\ UNCHANGED vars

Next ==
    \/ \E w \in Workers :
          \/ \E r \in Requests : Receive(w, r)
          \/ CheckForced(w) \/ CheckIgnored(w) \/ CheckProtected(w)
          \/ Evaluate(w) \/ Decide(w)
          \/ TableRead(w) \/ TableWrite(w)
          \/ EventGet(w) \/ EventWrite(w) \/ Commit(w)
    \/ Finished

Spec == Init /\ [][Next]_vars

-----------------------------------------------------------------------------
(* Properties. *)

(***************************************************************************)
(* Multi-profile evaluation: a request evaluated against several profiles  *)
(* is let through as verified (other than a Delete, which is always        *)
(* skipped) only if EVERY enabled profile resolved for it permitted it.    *)
(* It is about Run's loop, which must not stop at the first profile that   *)
(* permits and must surface the last profile's reason only when all did.   *)
(***************************************************************************)
AllProfilesPassed ==
    \A w \in Workers :
        LET c == ctx[w] IN
        (c.dr # None /\ c.dr.allow /\ c.dr.verified /\ req[w].op # "DELETE")
            => c.profiles \subseteq c.passed

(***************************************************************************)
(* A ResourceSigningProfile disappears from the cluster only through a     *)
(* Delete sent by the IE admin group or the server's own identity, or      *)
(* while the enforcer runs in detect-only mode: BLOCK_DELETE of            *)
(* evalFinalDecisionForIEResource is never overridden by break-glass, and  *)
(* no other path of Run lets a non-admin Delete of a profile through.      *)
(***************************************************************************)
ProfileDeleteGuard ==
    [][\A p \in Refs :
          (store[p] # NoProfile /\ store'[p] = NoProfile) =>
              \E w \in Workers :
                  /\ pc[w] = "commit" /\ req[w].kind = "Profile" /\ req[w].name = p
                  /\ (IsIEAdmin(req[w]) \/ detect)]_store

(***************************************************************************)
(* Whenever no request is in flight, each persisted table holds exactly    *)
(* the entries InitRuleTable would build from the stored profiles: the     *)
(* incremental Remove-then-Add of RuleTableLoader.Update, done while        *)
(* admitting each profile change, keeps the tables in step with the        *)
(* profiles the API server actually stored.                                *)
(***************************************************************************)
TablesMatchProfiles ==
    (\A w \in Workers : pc[w] = "idle") =>
        \A kind \in Kinds : tables[kind] = InitRuleTable(store, kind)

(***************************************************************************)
(* Every denial of a general resource names its cause: either the          *)
(* evaluation aborted or a profile denied the request (the denying profile *)
(* whose status is then updated).  A request is never refused with no      *)
(* profile to blame and an empty message.                                  *)
(***************************************************************************)
DenialHasCause ==
    \A w \in Workers :
        LET c == ctx[w] IN
        (c.dr # None /\ ~c.dr.allow /\ ~c.ie /\ c.dr.reason # "NONE")
            => (c.aborted \/ c.denying # None)

(***************************************************************************)
(* Spec section 5: any internal failure aborts into a deny decision, and   *)
(* section 6: collaborator failures are not raised across the decision     *)
(* boundary.  Every call Run handles ends in an admission response, never  *)
(* in a nil dereference.  It is about createPatch reading the signature    *)
(* result the loop left nil after an evaluator error, and MergedSignPolicy *)
(* reading the SignPolicy that SignPolicyLoader left nil after a failed    *)
(* List.                                                                   *)
(***************************************************************************)
RunNeverPanics ==
    \A w \in Workers : ctx[w].dr # None => ctx[w].dr.label # "panic"

(***************************************************************************)
(* Whenever no request is in flight, every deny event counts each denial  *)
(* that reached createOrUpdateEvent: an existing event is incremented      *)
(* rather than duplicated or dropped.  It is about the Get-then-Create or  *)
(* Update of createOrUpdateEvent run by concurrent denials of the same     *)
(* request.                                                                *)
(***************************************************************************)
EventCountsDenials ==
    (\A w \in Workers : pc[w] = "idle") => events = denied

(***************************************************************************)
(* Spec section 4.2: a request subject to several profiles is allowed     *)
(* only if all of them pass.  When the loop lets a request through, it has *)
(* evaluated, and been permitted by, every profile whose rules matched the *)
(* request and that is stored and enabled when the profiles are loaded.    *)
(* It is about GetByReferences, which logs a failed Get and goes on        *)
(* without that profile, down to the empty profile when none is left.      *)
(***************************************************************************)
AllowCoversMatchedProfiles ==
    [][\A w \in Workers :
          (pc[w] = "resolve" /\ pc'[w] = "decide" /\ ctx'[w].allowed) =>
              {p \in ctx[w].refs : store[p] # NoProfile /\ ~store[p].disabled}
                  \subseteq ctx'[w].passed]_vars

(***************************************************************************)
(* Spec sections 4.5 and 8: after N calls of UpdateStatus on a profile its *)
(* DenyCount is N.  Whenever no request is in flight, the status of every  *)
(* stored profile counts each denial Run charged to it since it was        *)
(* created.  It is about Run handing UpdateProfileStatus the profile copy  *)
(* it read before evaluating, while other calls deny against the same      *)
(* profile.                                                                *)
(***************************************************************************)
DenyCountMatchesDenials ==
    (\A w \in Workers : pc[w] = "idle") =>
        \A p \in Refs : store[p] # NoProfile => status[p].denyCount = charged[p]


(***************************************************************************)
(* A profile change is applied to the three tables as a whole: a request  *)
(* that Run looks up while an admin's change is being written is          *)
(* classified (the references it is evaluated against, or none when it is *)
(* let through as ignored or unprotected) as the stored profiles classify *)
(* it with that change applied or not applied, never as a half-written    *)
(* change does.  It is about RuleTableLoader.Update writing protect,      *)
(* ignore and force one RuleTable.Update after another, while the three   *)
(* lookups of Run each Load the current table.                            *)
(***************************************************************************)
ClassifiedByWholeChanges ==
    [][\A w \in Workers :
          (pc[w] \in {"force", "ignore", "protect"} /\ pc'[w] \in {"resolve", "decide"})
              => (IF pc'[w] = "resolve" THEN ctx'[w].refs ELSE {}) \in ctx'[w].views]_vars

=============================================================================
