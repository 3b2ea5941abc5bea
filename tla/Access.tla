------------------------------- MODULE Access -------------------------------
(***************************************************************************)
(* The policy decision and what the Gateway does with it                   *)
(* (pdp/policy_engine.py, gateway/gateway_server.py, common/preflight.py). *)
(*                                                                         *)
(* The policies are loaded when the Gateway is imported: policies.json     *)
(* over the defaults of common/config.py.  Preflight looks at the file     *)
(* again, and only then does the Gateway serve.  Each request looks its    *)
(* policy up, is decided, written to the audit log and passed on.          *)
(* reload_policies replaces the policies and the business hours at any     *)
(* time; the hours are read without its lock.  Any reading of the file may *)
(* fail though there is nothing wrong with it (OSError).                   *)
(*                                                                         *)
(* A request starts here with the claims of a token that was accepted.     *)
(***************************************************************************)
EXTENDS Integers

CONSTANTS
    Requests,   \* requests, each in a thread of its own
    Defaults,   \* RESOURCES: for each resource its thresholds
    Files,      \* what policies.json may hold: see Document
    Claims,     \* what a token may say: level, trust, attested, auth_time, amr
    EndOfDay,   \* 24
    MaxTime,    \* bound on the clock; auth_time and business hours refer to it
    MaxEdits    \* bound on the changes of the file

\* The auth_time of a token that has none.
NoTime == -1

Thresholds == {"min_role_level", "min_device_trust", "max_auth_age"}
HasNumbers(policy) == \A key \in DOMAIN policy \cap Thresholds : policy[key] \in Nat

\* Levels, scores, thresholds and times are numbers, and a file either has JSON in it
\* or not: what else it holds does not matter here.
ASSUME AccessAssumption ==
    /\ {EndOfDay, MaxTime, MaxEdits} \subseteq Nat
    /\ \A claims \in Claims : /\ claims.level \in Int /\ claims.trust \in Int
                              /\ claims.auth_time \in Nat \cup {NoTime}
    /\ \A name \in DOMAIN Defaults : HasNumbers(Defaults[name])
    /\ \A f \in Files : /\ f.kind \in {"absent", "malformed", "document"}
                        /\ f.kind = "document" =>
                               \A name \in DOMAIN f.resources : HasNumbers(f.resources[name])

VARIABLES
    now,
    file,       \* policies.json
    edits,      \* how often it has been changed
    gateway,    \* how far the process has come
    policies,   \* _policy_cache and _business_hours_cache: the reading they come from
    loading,    \* reload_policies: what it has read, while it holds _lock
    reloads,    \* history: how many have been finished
    request,    \* how far each request has come
    audit       \* the lines log_event has written, a set

vars == <<now, file, edits, gateway, policies, loading, reloads, request, audit>>

\* A file with JSON in it has business hours, and thresholds that go before the defaults.
NoFile    == [kind |-> "absent"]
Malformed == [kind |-> "malformed"]
IsDocument(f) == f.kind = "document"

\* What a reading of the file gives: what is in it, or nothing.
Unread    == [kind |-> "unread"]
Readings  == {file, Unread}
Sources   == Files \cup {Unread}

NotLoading == [kind |-> "none"]
Idle == [pc |-> "idle"]
\* The status of the resource, whichever it is.
Relayed == 1
Answers == {Relayed, 401, 403, 500, 502}
Reasons == {"policy_match", "unknown_resource", "insufficient_role",
            "insufficient_device_trust", "attestation_required", "step_up_required",
            "insufficient_auth_method", "outside_business_hours"}
Decisions == {"allow", "deny", "error"}

\* What a request may ask for.
Names == DOMAIN Defaults \cup
             UNION {DOMAIN f.resources : f \in {g \in Files : IsDocument(g)}} \cup {"other"}

\* claims: the token's; from: the reading its policy comes from; at: when it was looked up,
\* then when it was decided; reloads: history, the number finished by the lookup, then
\* the number finished between lookup and decision.
RequestState ==
    [pc : {"found", "decided", "recorded", "answered"},
     claims : Claims, name : Names, from : Sources, reloads : Nat, at : Nat,
     reason : Reasons \cup {"none"}, status : Answers \cup {0}]

TypeOK ==
    /\ now \in Nat /\ edits \in Nat /\ reloads \in Nat
    /\ file \in Files /\ policies \in Sources
    /\ gateway \in {"imported", "serving", "refused"}
    /\ loading \in Sources \cup {NotLoading}
    /\ request \in [Requests -> RequestState \cup {Idle}]
    /\ audit \subseteq Requests \X Decisions

\* The import of policy_engine loads what it can read of the file.
Init ==
    /\ now = 0 /\ edits = 0 /\ reloads = 0
    /\ file \in Files
    /\ gateway = "imported"
    /\ policies \in Readings
    /\ loading = NotLoading
    /\ request = [r \in Requests |-> Idle]
    /\ audit = {}

(***************************************************************************)
(* The policies.                                                           *)
(***************************************************************************)

\* The overrides of a file update the defaults key by key.
Over(overrides, policy) ==
    [key \in DOMAIN overrides \cup DOMAIN policy |->
        IF key \in DOMAIN overrides THEN overrides[key] ELSE policy[key]]

\* _load_policies_from_disk: without JSON, or without a reading, the defaults stay.
Merged(f) ==
    IF IsDocument(f)
    THEN [name \in DOMAIN Defaults \cup DOMAIN f.resources |->
            IF name \notin DOMAIN f.resources THEN Defaults[name]
            ELSE IF name \notin DOMAIN Defaults THEN f.resources[name]
            ELSE Over(f.resources[name], Defaults[name])]
    ELSE Defaults

Hours(f) == IF IsDocument(f) THEN f.hours ELSE [start |-> 0, end |-> EndOfDay]

WithinBusinessHours(hours, at) ==
    hours.end >= EndOfDay \/ (hours.start <= at /\ at < hours.end)

\* resource.get
Get(policy, key, default) == IF key \in DOMAIN policy THEN policy[key] ELSE default
Attestation(policy) == Get(policy, "require_attestation", FALSE)
MaxAge(policy)      == Get(policy, "max_auth_age", 0)
RequiredAmr(policy) == Get(policy, "required_amr", {})
HoursOnly(policy)   == Get(policy, "business_hours_only", FALSE)

\* Mutated: a token without auth_time counts as fresh.
StaleIfDated(policy, claims, at) ==
    /\ MaxAge(policy) > 0
    /\ claims.auth_time # NoTime /\ at - claims.auth_time > MaxAge(policy)

Stale(policy, claims, at) ==
    /\ MaxAge(policy) > 0
    /\ claims.auth_time = NoTime \/ at - claims.auth_time > MaxAge(policy)

\* The order in which evaluate makes its checks, and what each refuses.
Order == <<"insufficient_role", "insufficient_device_trust", "attestation_required",
           "step_up_required", "insufficient_auth_method", "outside_business_hours">>

Refuses(reason, policy, claims, at, hours) ==
    \/ reason = "insufficient_role" /\ claims.level < Get(policy, "min_role_level", 0)
    \/ reason = "insufficient_device_trust" /\ claims.trust < Get(policy, "min_device_trust", 0)
    \/ reason = "attestation_required" /\ Attestation(policy) /\ ~claims.attested
    \/ reason = "step_up_required" /\ Stale(policy, claims, at)
    \/ reason = "insufficient_auth_method" /\ ~(RequiredAmr(policy) \subseteq claims.amr)
    \/ reason = "outside_business_hours" /\ HoursOnly(policy) /\ ~WithinBusinessHours(hours, at)

\* hours: those that are in the cache when evaluate gets there.
Reason(policy, claims, at, hours) ==
    LET refusing == {i \in DOMAIN Order : Refuses(Order[i], policy, claims, at, hours)}
    IN  IF refusing = {} THEN "policy_match"
        ELSE Order[CHOOSE i \in refusing : \A j \in refusing : i <= j]

\* A policy that is in the file only may lack a threshold: evaluate raises KeyError
\* when it gets to it.
Raises(policy, claims) ==
    \/ "min_role_level" \notin DOMAIN policy
    \/ claims.level >= policy.min_role_level /\ "min_device_trust" \notin DOMAIN policy

(***************************************************************************)
(* A request.                                                              *)
(***************************************************************************)

\* evaluate takes the policy from the cache, under _lock.  A token that was issued
\* later than now has not been accepted.
Lookup(r, claims, name) ==
    /\ gateway = "serving" /\ loading = NotLoading
    /\ request[r] = Idle /\ claims.auth_time <= now
    /\ request' = [request EXCEPT ![r] =
                     [pc |-> "found", claims |-> claims, name |-> name, from |-> policies,
                      reloads |-> reloads, at |-> now, reason |-> "none", status |-> 0]]
    /\ UNCHANGED <<now, file, edits, gateway, policies, loading, reloads, audit>>

Answer(r, status) ==
    request' = [request EXCEPT ![r].pc = "answered", ![r].status = status]

\* The dispatcher answers 500 when the handler raises: nothing has been logged.
Decide(r) ==
    LET q      == request[r]
        cache  == Merged(q.from)
        known  == q.name \in DOMAIN cache
    IN  /\ q.pc = "found"
        /\ IF known /\ Raises(cache[q.name], q.claims) THEN Answer(r, 500)
           ELSE request' = [request EXCEPT
                  ![r].pc = "decided", ![r].at = now,
                  ![r].reloads = reloads - q.reloads,
                  ![r].reason = IF known THEN Reason(cache[q.name], q.claims, now, Hours(policies))
                                ELSE "unknown_resource"]
        /\ UNCHANGED <<now, file, edits, gateway, policies, loading, reloads, audit>>

Allowed(r) == request[r].pc # "idle" /\ request[r].reason = "policy_match"

\* Mutated: only refusals are logged.
RecordOfRefusal(r) == IF Allowed(r) THEN {} ELSE {<<r, "deny">>}

RecordOf(r) == {<<r, IF Allowed(r) THEN "allow" ELSE "deny">>}

\* log_event comes before anything else is done; the disk may be full.
Record(r) ==
    /\ request[r].pc = "decided"
    /\ \/ /\ audit' = audit \cup RecordOf(r)
          /\ request' = [request EXCEPT ![r].pc = "recorded"]
       \/ Answer(r, 500) /\ UNCHANGED audit
    /\ UNCHANGED <<now, file, edits, gateway, policies, loading, reloads>>

\* Mutated: a refusal keeps the client's reason.
StatusOfReason(r) == IF request[r].reason = "step_up_required" THEN 401 ELSE 404

\* Only a step-up is something the client can act on.
StatusOf(r) == IF request[r].reason = "step_up_required" THEN 401 ELSE 403

Refuse(r) ==
    /\ request[r].pc = "recorded" /\ ~Allowed(r)
    /\ Answer(r, StatusOf(r))
    /\ UNCHANGED <<now, file, edits, gateway, policies, loading, reloads, audit>>

\* A resource that is in the file only has no address.
NoAddress(r) ==
    /\ request[r].pc = "recorded" /\ Allowed(r)
    /\ request[r].name \notin DOMAIN Defaults
    /\ Answer(r, 500)
    /\ UNCHANGED <<now, file, edits, gateway, policies, loading, reloads, audit>>

\* _proxy_to_backend: the resource's status is passed on, or it cannot be reached, which
\* is logged, too.
Proxy(r) ==
    /\ request[r].pc = "recorded" /\ Allowed(r)
    /\ request[r].name \in DOMAIN Defaults
    /\ \/ Answer(r, Relayed) /\ UNCHANGED audit
       \/ Answer(r, 502) /\ audit' = audit \cup {<<r, "error">>}
       \/ Answer(r, 500) /\ UNCHANGED audit
    /\ UNCHANGED <<now, file, edits, gateway, policies, loading, reloads>>

(***************************************************************************)
(* The process, the file and time.                                         *)
(***************************************************************************)

\* Mutated: a file that is there is good enough.
FileExists(f) == f # NoFile

\* collect_findings: the policy file is there, can be read and is JSON.
FilePasses(f) == IsDocument(f)

\* run_preflight, before the socket is bound.
Preflight ==
    /\ gateway = "imported"
    /\ \E f \in Readings : gateway' = IF FilePasses(f) THEN "serving" ELSE "refused"
    /\ UNCHANGED <<now, file, edits, policies, loading, reloads, request, audit>>

\* reload_policies holds _lock while it reads; _lock orders it with Lookup.
StartReload ==
    /\ gateway = "serving" /\ loading = NotLoading
    /\ reloads < MaxEdits
    /\ loading' \in Readings
    /\ UNCHANGED <<now, file, edits, gateway, policies, reloads, request, audit>>

\* It stores both caches.  That it stores them one after the other shows to nobody:
\* who reads the hours has looked the policy up before.
FinishReload ==
    /\ loading # NotLoading
    /\ policies' = loading
    /\ loading' = NotLoading
    /\ reloads' = reloads + 1
    /\ UNCHANGED <<now, file, edits, gateway, request, audit>>

Edit(f) ==
    /\ edits < MaxEdits /\ f # file
    /\ file' = f
    /\ edits' = edits + 1
    /\ UNCHANGED <<now, gateway, policies, loading, reloads, request, audit>>

Tick ==
    /\ now < MaxTime
    /\ now' = now + 1
    /\ UNCHANGED <<file, edits, gateway, policies, loading, reloads, request, audit>>

(***************************************************************************)
(* The specification.                                                      *)
(***************************************************************************)

Handle(r) ==
    \/ \E claims \in Claims, name \in Names : Lookup(r, claims, name)
    \/ Decide(r) \/ Record(r) \/ Refuse(r) \/ NoAddress(r) \/ Proxy(r)

Next ==
    \/ \E r \in Requests : Handle(r)
    \/ Preflight \/ StartReload \/ FinishReload \/ Tick
    \/ \E f \in Files : Edit(f)

Spec == Init /\ [][Next]_vars

(***************************************************************************)
(* Properties.                                                             *)
(***************************************************************************)

\* What the policy of a file demands of the claims, whatever the order of the checks.
Permits(f, name, claims, at) ==
    LET p == Merged(f)[name] IN
    /\ name \in DOMAIN Merged(f)
    /\ claims.level >= p.min_role_level /\ claims.trust >= p.min_device_trust
    /\ Attestation(p) => claims.attested
    /\ MaxAge(p) > 0 => claims.auth_time # NoTime /\ at <= claims.auth_time + MaxAge(p)
    /\ \A m \in RequiredAmr(p) : m \in claims.amr
    /\ HoursOnly(p) => WithinBusinessHours(Hours(f), at)

\* A request that is allowed meets everything one version of the policies demands,
\* except that a reload may be finished between the lookup and the hours: then it is
\* judged by the policy of one file and the hours of another (policy_engine.py:
\* _within_business_hours reads the cache without the lock).
AllowFollowsPolicy ==
    \A r \in Requests :
        Allowed(r) => LET q == request[r] IN
            Permits(q.from, q.name, q.claims, q.at) \/ q.reloads > 0

\* Whatever is answered with a decision is in the audit log, and the line comes before
\* the resource is asked, whichever step fails (gateway_server.py: "for every allow AND
\* deny decision").
AnswersAreRecorded ==
    \A r \in Requests :
        LET written == {d \in Decisions : <<r, d>> \in audit} IN
        request[r].pc = "answered" =>
            /\ request[r].status = Relayed => written = {"allow"}
            /\ request[r].status = 502 => written = {"allow", "error"}
            /\ request[r].status \in {401, 403} => written = {"deny"}

\* A Gateway decides by the defaults alone, without what policies.json adds, only when
\* the last reading of the file has failed, at the import or at a reload, or the file was
\* changed after the import: a file without JSON that was there all the time keeps it
\* from serving (common/preflight.py: "A malformed policy file must not be silently
\* ignored").
FallbackHasCause ==
    gateway = "serving" /\ ~IsDocument(policies) => policies = Unread \/ edits > 0
=============================================================================
