# TLA+ models of the integrity enforcer's admission decision engine

This directory holds TLA+ models of the admission webhook in
`src/enforcer/pkg/control/` and the `ResourceSigningProfile` status
bookkeeping in `src/shield/pkg/apis/resourcesigningprofile/v1alpha1/types.go`.
It also models the shield's resource validation in
`src/shield/pkg/shield/utilValidation.go`. It also holds the TLC
configurations that check them. `PROJECT.json`
lists the components, runs, mutants, findings, hazards, and a map from
every modelled definition to the source lines it translates.

## 1. The system

One admission request is handled by one call of `RequestHandler.Run`
(handler.go:64-279). Calls run concurrently and share no memory. They
share only what lives in the cluster:

* the three **rule tables** (protect, ignore, force-check). Each is a
  ConfigMap holding `<rule, profile reference>` entries. They are read
  by `RuleTableLoader.Load` (loader.go:158-175) and rewritten by
  `RuleTableLoader.Update` (loader.go:177-222);
* the **ResourceSigningProfile objects** and their **status**. Profiles
  are resolved by `RSPLoader.GetByReferences`, which is not under
  `src/`; the model takes `RPPLoader.GetByReferences` (loader.go:343-383)
  as its stand-in, then `Loader.SigningProfile` (handler.go:708-720). Their
  status is updated by `ResourceSigningProfile.UpdateStatus`
  (types.go:168-206);
* the **events** written by `createOrUpdateEvent` (handler.go:606-673).

The pipeline of `Run`, in order:

1. Dry-run and unprocessed requests are allowed at once.
2. The server's own resources (IE resources) are validated. An admin
   request is allowed as IE_ADMIN. Any other IE request is evaluated
   against the empty profile.
3. Every other request goes through three lookups: force-check, then
   ignore (only if not forced), then protect. Each lookup reads its
   table afresh.
4. The matched references are resolved to enabled profiles. The loop
   evaluates the signature, then the mutation for an Update. It stops at
   the first profile that does not permit.
5. Break-glass and detect-only are computed, then the final decision
   (`evalFinalDecision` or `evalFinalDecisionForIEResource`) and the
   patch (`createPatch`).
6. Side effects follow. An allowed profile change rewrites the rule
   tables (`UpdateRuleTable`). A denied ordinary request updates the
   denying profile's status and an event.

The signature verifier, the mutation checker, the `protect` package (the
RuleTable type) and the API server are not under `src/`.

## 2. Modules

| Module | Models | State | Actions |
|---|---|---|---|
| `RuleTable` | `protect.RuleTable`, from spec sections 3 and 4.2 (not in src) | a table is a set of `<<rule, ref>>` | operators `Add`, `Remove`, `Merge`, `Match` |
| `ProfileStatus` | `ResourceSigningProfile.UpdateStatus` | `status`, ghost `history` | `Deny(gvk, msg)`, `Finished` |
| `Enforcer` | `RequestHandler.Run`, `RuleTableLoader`, profile resolution, the SignPolicy load, `createOrUpdateEvent`, and the API server's commit | `tables`, `store`, `status`, `detect`, `events`; per worker `pc`, `req`, `ctx`, `tmp`; `count`; ghosts `denied`, `charged` and `ctx[w].views` | `Receive`, `CheckForced`, `CheckIgnored`, `CheckProtected`, `Evaluate`, `Decide`, `TableRead`, `TableWrite`, `EventGet`, `EventWrite`, `Commit`, `Finished` |
| `ShieldValidation` | `ValidateResource` and its five validators | `reqc`, one request of the domain, fixed | none: every request is an initial state |
| `MCProfileStatus`, `MCEnforcer` | constants for TLC | | |

`Enforcer` instantiates `RuleTable` as `RT` and `ProfileStatus` as `PS`.
So the status update in `Decide` is the same operator `ProfileStatus`
checks.

**How the Enforcer steps map to the code.**

* A worker is one webhook call. A step ends wherever the code reads or
  writes shared state, so interleavings happen where they can in the
  cluster.
* `Receive` covers handler.go:64-118: the skip checks, IE
  classification, validation and the admin shortcut.
* Each of `CheckForced`, `CheckIgnored` and `CheckProtected` is one table
  Load and the code that uses it (handler.go:119-149).
* `Evaluate` resolves the references with `SigningProfile`
  (Loader.SigningProfile, which drops disabled profiles) over
  `GetByReferences` (RPPLoader.GetByReferences and MergeDefaultProfiles,
  standing in for the RSPLoader method Run calls). With
  `GetMayFail`, any subset of the Gets may fail. A failed Get is only
  logged, so the profile is dropped, down to the empty profile when none
  is left. It then runs `EvalLoop` (handler.go:151-223). The first
  `evalSignature` loads the SignPolicy through `MergedSignPolicy`. With
  `SignPolicyMayFail`, that load may fail (`SignPolicyLoaded`), and the
  nil SignPolicy it leaves is dereferenced: the call panics. The order of the resolved
  profiles is chosen freely from all permutations. Each profile's
  verifier and mutation answers are also chosen freely, from
  `SigResults` and `MutResults`.
* `Decide` covers handler.go:225-269: the flags, the final decision,
  `createPatch`, the status update, and the branch to the table rewrite.
  Break-glass reads the SignPolicy. When no profile was evaluated, this
  is the request's first load and may fail. `BreakGlassConditions` then
  returns no condition.
  A nil signature result read by `createPatch` is a panic. The call
  then ends before either side effect.
* `TableRead` is one `GetRuleTable` + `Remove` + `Add` of
  `RuleTableLoader.Update`. `TableWrite` is one `RuleTable.Update`. The
  code is straight-line, and `pc` walks its six steps by name
  (`ReadStep`, `WriteStep`, `UpdateNext`): read protect, ignore, force,
  then write protect, ignore, force.
* `EventGet` and `EventWrite` are `createOrUpdateEvent`
  (handler.go:606-673), called for a denied ordinary request with a
  denying profile. `EventGet` is the Get of the event named after
  (operation, kind, name) in the request's namespace, or the server's
  namespace for a cluster-scoped object. `EventWrite` writes Count + 1
  of what Get returned: as a Create if Get found nothing, else as an
  Update carrying the version read. `events[key]` is the Count, 0 when
  the event is absent, and it doubles as the version. So a Create of an
  event that exists by now fails (AlreadyExists), and so does an Update
  after another write (Conflict). Run only logs the error. The ghost
  `denied` counts the denials that reached `EventGet`.
* `Commit` is the API server after the webhook answered. It persists an
  allowed, non-dry-run request unless the object's existence
  contradicts the operation.
* Three ghosts serve the properties:
  * `charged[p]` counts the denials `Decide` charged to profile `p` since
    it was created;
  * `denied[key]` counts the denials that reached `createOrUpdateEvent`;
  * `ctx[w].views` holds, for each table lookup of the call, how the
    request would be classified (`Classify`) by the tables of the stored
    profiles with any subset of the in-flight profile changes applied
    whole (`InFlightChanges`, `StoreWith`). These are the states an atomic
    rewrite of the three tables would pass through.

**Abstractions.**

* A rule is identified with the one resource it matches, and a target
  is a model value.
* Messages are abstracted to the verifier error that produced them.
* A profile reference is a model value. Duplicate references collapse
  into a set. The code would evaluate such a profile twice, with the
  same result.
* Logging, JSON, timestamps and the patch bytes are left out. The patch
  is reduced to the label it sets: "verified", "unverified", "remove",
  "none", or "panic".

`ShieldValidation` abstracts a request body to what the validators read:
* whether it unmarshals;
* whether a profile has a `TargetNamespaceSelector`;
* the number of signature data;
* which of the three required labels are present.

## 3. Runs

| Run | Config | Expect | What it shows |
|---|---|---|---|
| profile_status | `MCProfileStatus.cfg` | pass | Up to 5 `UpdateStatus` calls over 2 GVKs and 2 messages. Latest wraps past its bound of 3 twice. `StatusMatchesHistory`: DenyCount, one Summary entry per GVK with its count, and Latest = the newest 3, newest first. (1365 states) |
| decision | `MCEnforcer_decision.cfg` | pass | 2 workers, 2 requests, 2 profiles protecting t1, detect on/off, break-glass in n1. The SignPolicy load may fail. Requests include all operations on t1, admin and non-admin profile changes, dry-run/unprocessed, an invalid IE object and a Signature delete. `AllProfilesPassed`: a verified allow means every resolved profile permitted. `ProfileDeleteGuard`: a profile disappears only through an admin Delete or in detect mode. `AllowCoversMatchedProfiles`: when the loop allows, every matched profile that is stored and enabled was evaluated and permitted. (365682 states, ~60 s) |
| tables_sequential | `MCEnforcer_tables_seq.cfg` | pass | 1 worker, 4 profile creates/updates/deletes by an admin with protect/ignore/force payloads. `TablesMatchProfiles`: with no request in flight, every table equals what `InitRuleTable` builds from the stored profiles. (14219 states) |
| tables_lost_update | `MCEnforcer_lost_update.cfg` | violation | Two admins change two different profiles at once. One Update writes back a force table read before the other's write. p1's force entry is lost. |
| disabled_profile_denial | `MCEnforcer_disabled.cfg` | violation | An admin disables the profile protecting t1. Update still adds its rules, so t1 stays protected. The loop then has no profile, and the request is denied with UNEXPECTED, no denying profile and an empty message. |
| delete_patch_panic | `MCEnforcer_delete_panic.cfg` | violation | A Delete of protected t1 whose signature evaluation errors. It is allowed as SKIP_DELETE, and `createPatch` reads the nil result. `RunNeverPanics` (every call ends in an admission response) fails. |
| event_lost_count | `MCEnforcer_events.cfg` | violation | Two identical unsigned Updates of t1, denied at once. Both Gets find no event, both Create, and one fails with AlreadyExists. `EventCountsDenials` (with no call in flight, each event's Count is the number of denials with its key) fails with Count 1 for 2 denials. |
| get_failure | `MCEnforcer_get_failure.cfg` | violation | With `GetMayFail`, the Get of p1, the only profile protecting t1, fails. The empty profile takes its place and the request is allowed. `AllowCoversMatchedProfiles` fails: p1 matched and was never evaluated. |
| status_race | `MCEnforcer_status_race.cfg` | violation | Two identical unsigned Updates of t1 are denied by p1 at once. Each updates the status copy it read before evaluating. `DenyCountMatchesDenials` (with no call in flight, each stored profile's DenyCount is the number of denials charged to it) fails with DenyCount 1 after 2 denials. |
| torn_view | `MCEnforcer_torn_view.cfg` | violation | An admin's Update moves p1 from protecting t1 to force-checking it, while a user updates t1. Update has written the new protect table but not yet the new force table when the user's lookups run, so t1 is in neither and is let through as NOT_PROTECTED. `ClassifiedByWholeChanges` fails: with the change applied whole or not at all, p1 protects t1. |
| signpolicy_panic | `MCEnforcer_signpolicy.cfg` | violation | With `SignPolicyMayFail`, the SignPolicy List fails for a user's Update of protected t1. The first `evalSignature` dereferences the nil SignPolicy. `RunNeverPanics` fails. |
| malformed_shield_config | `ShieldValidation.cfg` | violation | `MalformedResourceRejected`: a Create or Update of one of the shield's five kinds whose body does not unmarshal is rejected. It fails for a ShieldConfig (and a HelmReleaseMetadata). |

Every property of a passing run has a mutant in `PROJECT.json`: a
plausible bug in the mapped code that TLC finds under the run's own
configuration. Between them, the passing runs fire every action and every
branch of `Evaluate`, `Decide` and `Commit`.

**Bounds.**

* One target and two profiles are enough for a request to be force-,
  ignore- and protect-matched, and governed by two profiles at once.
* Two workers are enough for every race on a shared table, profile or event.
* Two requests per run let one worker's request land anywhere inside
  the other's steps. In `torn_view`, this puts each of the user's three
  lookups before, between or after the admin's three table writes.
* The fault runs (`get_failure`, `signpolicy_panic`) need only one
  request; the decision run keeps the SignPolicy fault on, so the
  properties there hold when it strikes.
* Four sequential requests let a profile be created, updated to another
  payload, deleted and recreated.
* Five status updates go past the Latest bound twice.

* `ShieldValidation` enumerates all 3 x 6 x 2 x 2 x 2 x 3 x 8 requests:
  every operation, the five shield kinds plus one other, both
  namespaces, every body shape, up to two signature data, and every
  label subset.

**Liveness and fairness.** No liveness property is checked. Every
step of a call stays enabled until it is taken, and no step loops, so
"every request is answered" holds under weak fairness whatever the code
does. The one real way a call fails to answer is an API call that never
returns, which the model does not represent. A panic does end the call
without an answer; `RunNeverPanics` covers that.
Deadlock is checked in every run. `Finished` is the only stuttering
step, and it is enabled only once every request has been answered.

## 4. Findings

1. **Lost update of the rule tables** (loader.go:184-222). Update has no
   version check, which spec section 5 requires. See `tables_lost_update`.
2. **Disabled profiles re-enter the tables** (loader.go:208-210). This
   disagrees with `InitRuleTable` (loader.go:91) and spec section 4.2.
   Requests are then denied with no cause. See `disabled_profile_denial`.
3. **Nil dereference in createPatch for a Delete** (handler.go:208, 245,
   451). See `delete_patch_panic`.

4. **Lost event counts** (handler.go:651-672). A Get followed by a
   Create or Update, with the error only logged. Spec section 4.4 step 8
   says an existing event is incremented, not duplicated. See
   `event_lost_count`.
5. **Two validators never run** (utilValidation.go:49, 61).
   `ValidateResource` compares the request kind with the API-version
   constants of ShieldConfig and HelmReleaseMetadata. Their bodies are
   therefore never unmarshalled. See `malformed_shield_config`. The
   values of the `common` constants are not under `src/`. The model
   assumes (ASSUME) what Kubernetes guarantees: an apiVersion
   (`group/version`) is never a kind.

6. **A failed profile Get lets a request through** (loader.go:347,
   353-360). GetByReferences logs the failed Get of a matched profile and
   goes on without it, down to the empty profile. A transient API error
   lets a request that p1 protects be allowed without p1 being evaluated.
   Spec section 4.2 says every profile a request is subject to must pass.
   See `get_failure`.
7. **Denials lost from DenyCount** (handler.go:260). Run updates the
   status on the profile copy it read before evaluating. Two concurrent
   denials charged to one profile leave DenyCount 1. Spec sections 4.5
   and 8 say N calls give N. See `status_race`.
8. **Half-written profile change seen by a request** (loader.go:214-220;
   handler.go:120, 127, 136). Update writes the protect, ignore and
   force tables with three separate `RuleTable.Update` calls, and Run
   Loads each table afresh. When p1 moves t1 from protect to
   force-check, t1 is in neither table between the protect write and
   the force write, and a request looked up then is allowed as
   NOT_PROTECTED, although t1 is protected before and after the change.
   Spec section 5 asks only for a compare-and-swap on each table
   document, which does not prevent this. See `torn_view`.
9. **Panic on a failed SignPolicy load** (handler.go:765, loader.go:433).
   `SignPolicyLoader.Load` returns on a List error without setting Data.
   `BreakGlassConditions` checks for nil; `MergedSignPolicy`, called by
   the first `evalSignature`, does not. Spec section 5 says an internal
   failure aborts into a deny. See `signpolicy_panic`.

## 5. Not modelled, and the plan

* **Rejected commits.** Run rewrites the tables while admitting a
  profile change, as spec section 4.4 step 9 prescribes, and the API
  server persists the change only afterwards. `Commit` models the
  rejections that follow from the object's existence: a Create of a
  profile that is already stored (AlreadyExists), or an Update or Delete
  of one that is not (NotFound), is admitted, rewrites the tables, and
  then persists nothing. The tables then hold rules of a profile state
  that was never stored, and `Refresh` (loader.go:224), which could
  reconcile them, is an empty TODO. The decision run reaches these states
  (`WellFormedClients = FALSE`), but it does not check
  `TablesMatchProfiles`, because this case violates it. tables_sequential
  checks the property only for well-formed clients. The run budget went
  to the findings in the table, so this case is recorded as the open
  hazard at handler.go:255 rather than as a run. Other rejections (a
  later webhook, a quota, a resourceVersion conflict) are faults of
  collaborators outside this repository.
* **Restarts.** The caller of `InitRuleTable` is not under `src/`. So
  whether a restart rebuilds the tables, and repairs findings 1 and 2,
  cannot be modelled from this code.
* **Errors the model does not inject.**
  * A `GetRuleTable` error in Update (loader.go:185) is logged and
    ignored. What the `protect` package returns with the error is not
    under `src/`, so the table the write-back starts from is unknown.
  * An Unmarshal error of the new profile in Update (loader.go:204)
    cannot happen on Run's path: `validateIEResource` has already
    rejected a profile that does not unmarshal.
* **Time.** The SignPolicy list is cached for 10 s (loader.go:431). A
  cache hit appears only as a load that cannot fail. The model has no
  clock, so a break-glass condition removed within the TTL is not
  modelled. The cache is not under `src/`.
* **Other code.**
  * `ResourceSigningProfile.Match` (strict matching) has no caller in
    `src/`: Run matches through the rule tables.
  * `VCheckContext` is unfinished code with no caller. It has no Run
    method, and `checkIfIEResource`, `processRequestForIEResource` and
    `updateRPP` are TODO stubs.
  * `ValidateResource` has no caller in `src/`: Run uses its own
    `validateIEResource`. `ShieldValidation` models it on its own.
  * The kubeutil dry-run helpers are I/O.
  * The verifier and mutation checker are external, and their results
    are chosen freely. This covers `ResSigLoader` and `sortByTimestamp`,
    whose list only reaches the verifier.
  * `RPPLoader.Load` and its cache are used only by `VCheckContext`.
* **Type invariant of `Enforcer`.** None is checked. The data are model
  values, sets and records built by the actions themselves. No plausible
  bug of the code puts a variable outside its type, so such an invariant
  would check only the model's own shape.
* **Assumptions.**
  * `InitCheckContext` (not in src) is taken to start
    `Result.SignatureEvalResult` non-nil with `Allow = false` (`Unset`).
  * The status write of an empty profile (a nameless object) is taken to
    change nothing.
