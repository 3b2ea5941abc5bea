---------------------------- MODULE Certificates ----------------------------
(***************************************************************************)
(* The internal CA and the leaf certificates that the services show each   *)
(* other (common/ca_utils.py, common/tls_utils.py), on one host.           *)
(*                                                                         *)
(* A service that starts checks its configuration (common/preflight.py),   *)
(* makes sure of its certificate and loads the CA it trusts, and holds     *)
(* both in memory until it stops.  tools/provision_certs.py issues what is *)
(* missing; tools/rotate_keys.py moves files to an archive.  All of them   *)
(* use the same files and take no lock.                                    *)
(***************************************************************************)
EXTENDS Integers, SequencesExt

CONSTANTS
    Services,     \* each has one leaf certificate here
    Gateway,      \* the service that loads its trust and its leaf before preflight
    MaxRuns,      \* bound on the starts of services and commands of tools, and
    MaxTangled,   \* on those that begin once the files are mixed up
    MaxActive,    \* bound on those at work at once
    MaxMishaps    \* bound on the runs that end half-way, the changes of address and
                  \* the certificates that expire

ASSUME CertificatesAssumption ==
    /\ IsFiniteSet(Services) /\ Gateway \in Services
    /\ Services \cap {"provision", "rotate", "ca"} = {}
    /\ MaxRuns \in Nat /\ MaxTangled \in Nat /\ MaxActive \in Nat /\ MaxMishaps \in Nat

VARIABLES
    disk,       \* the files
    run,        \* how far each service and tool has come
    held,       \* what each service has loaded
    runs,       \* how many starts and commands there were
    made,       \* the number of key pairs generated
    address,    \* where the services are reached (ZTNA_CERT_SANS, --docs-host, ...)
    expired,    \* the key pairs whose certificate has expired
    retired,    \* history: the CA pairs that rotate_keys has moved away
    aged,       \* history: the services running when the world changed around them
    mixedUp,    \* history: see Disturbs and LeavesMixture
    mishaps     \* history: how many of what MaxMishaps bounds

certVars == <<disk, run, held, runs, made, address, expired, retired, aged, mixedUp, mishaps>>

Provisioner == "provision"
Rotate      == "rotate"
Actors == Services \cup {Provisioner, Rotate}

CaKey     == <<"ca", "key">>
CaCert    == <<"ca", "cert">>
KeyOf(s)  == <<s, "key">>
CertOf(s) == <<s, "cert">>
CaFiles   == {CaKey, CaCert}
LeafFiles == Services \X {"key", "cert"}
Files == CaFiles \cup LeafFiles

\* What a file holds: the number of its key pair and, in a certificate, the CA pair that
\* signed it and the address it covers.  open(..., "wb") leaves it empty at first.
Holds(pair, by, at) == [pair |-> pair, by |-> by, at |-> at]
NoFile == Holds(0, 0, 0)
Blank  == Holds(0, 1, 0)

\* What is left to do: a sequence of tasks; step: where it is in the first of them;
\* at: the address it was configured with; pair, by: of the certificate it makes.
Begins(todo, at) == [todo |-> todo, step |-> <<"begin">>, at |-> at, pair |-> 0, by |-> 0]
AtRest == Begins(<< >>, 0)
Nothing == [trust |-> 0, leaf |-> NoFile]
Running(a) == run[a].todo # << >>
Up(s) == ~Running(s) /\ held[s] # Nothing

Trust     == [do |-> "trust"]
Preflight == [do |-> "preflight"]
Ensure    == [do |-> "ca"]
Issue(s)  == [do |-> "issue", leaf |-> s]
Move(fs)  == [do |-> "move", files |-> fs]

Tasks == {Trust, Preflight, Ensure} \cup {Issue(s) : s \in Services}
            \cup {Move(fs) : fs \in SUBSET Files}
Steps == {<<"begin">>, <<"ca">>, <<"load">>, <<"chain">>} \cup ({"open", "write"} \X Files)
Contents == [pair : Nat, by : Nat, at : Nat]
RunState == [todo : Seq(Tasks), step : Steps, at : Nat, pair : Nat, by : Nat]

CertTypeOK ==
    /\ disk \in [Files -> Contents]
    /\ run \in [Actors -> RunState]
    /\ held \in [Services -> [trust : Nat, leaf : Contents]]
    /\ runs \in Nat /\ made \in Nat /\ address \in Nat /\ mishaps \in Nat
    /\ expired \subseteq 1 .. made /\ retired \subseteq 1 .. made
    /\ aged \subseteq Services
    /\ mixedUp \in BOOLEAN

\* A new installation, or one where provision_certs has run.
Provisioned ==
    LET pair(f) == IF f \in CaFiles THEN 1
                   ELSE 1 + CHOOSE i \in 1 .. Cardinality(Services) : SetToSeq(Services)[i] = f[1]
    IN  [f \in Files |-> CASE f[2] = "key"  -> Holds(pair(f), 0, 0)
                           [] f = CaCert    -> Holds(1, 1, 0)
                           [] OTHER         -> Holds(pair(f), 1, 1)]

CertInit ==
    /\ \/ disk = [f \in Files |-> NoFile] /\ made = 0
       \/ disk = Provisioned /\ made = Cardinality(Services) + 1
    /\ run = [a \in Actors |-> AtRest]
    /\ held = [s \in Services |-> Nothing]
    /\ runs = 0 /\ address = 1 /\ mishaps = 0
    /\ expired = {} /\ retired = {} /\ aged = {}
    /\ mixedUp = FALSE

\* Mutated: the names in the certificate are not compared.
ReusableAnywhere(s, at) == disk[KeyOf(s)] # NoFile /\ disk[CertOf(s)] # NoFile

\* issue_cert: a leaf that covers the address is used again, whatever CA signed it.
Reusable(s, at) ==
    disk[KeyOf(s)] # NoFile /\ disk[CertOf(s)] # NoFile /\ disk[CertOf(s)].at = at

(***************************************************************************)
(* Starting and ending.                                                    *)
(***************************************************************************)

\* The tasks of each, in their order.  rotate_keys lists the directory as it begins.
Plans(a) ==
    CASE a = Gateway     -> {<<Trust, Issue(a), Preflight>>}
      [] a = Provisioner -> {<<Ensure>> \o [i \in 1 .. Cardinality(Services) |->
                                             Issue(SetToSeq(Services)[i])]}
      [] a = Rotate    -> LET leaves == {f \in LeafFiles : disk[f] # NoFile}
                          IN  {<<Move(leaves)>>, <<Move(leaves \cup CaFiles)>>}
      [] OTHER         -> {<<Preflight, Issue(a), Trust>>}

Start(a) ==
    /\ ~Running(a) /\ runs < (IF mixedUp THEN MaxTangled ELSE MaxRuns)
    /\ Cardinality({b \in Actors : Running(b)}) < MaxActive
    /\ a \in Services => ~Up(a)
    /\ \E plan \in Plans(a) : run' = [run EXCEPT ![a] = Begins(plan, address)]
    /\ runs' = runs + 1
    /\ aged' = aged \ {a}
    /\ UNCHANGED <<disk, held, made, address, expired, retired, mixedUp, mishaps>>

At(a, do, step) == Running(a) /\ Head(run[a].todo).do = do /\ run[a].step = <<step>>

Goto(a, step) == run' = [run EXCEPT ![a].step = step]
Finish(a) == run' = [run EXCEPT ![a] =
    IF Len(@.todo) = 1 THEN AtRest ELSE Begins(Tail(@.todo), @.at)]

Load(s, what, value) == held' = [held EXCEPT ![s][what] = value]
Unload(a) == held' = IF a \in Services THEN [held EXCEPT ![a] = Nothing] ELSE held

Exits(a) == run' = [run EXCEPT ![a] = AtRest] /\ Unload(a)

\* A service that was running, or the command of a tool, ends.
Stop(s) ==
    /\ Up(s)
    /\ Exits(s)
    /\ UNCHANGED <<disk, runs, made, address, expired, retired, aged, mixedUp, mishaps>>

\* It ends half-way, and leaves files that are not made again though they do not belong
\* together: not by who starts now, nor by who is at work with an earlier address.
LeavesMixture(a) ==
    \/ disk[CaKey] # NoFile /\ disk[CaCert] = Blank
    \/ \E s \in Services, at \in {address} \cup {run[b].at : b \in {c \in Actors \ {a} : Running(c)}} :
           Reusable(s, at) /\ disk[KeyOf(s)].pair # disk[CertOf(s)].pair
    \/ a = Rotate /\ \E s \in Services : disk[CertOf(s)].by \in retired

Kill(a) ==
    /\ Running(a) /\ mishaps < MaxMishaps
    /\ Exits(a)
    /\ mishaps' = mishaps + 1
    /\ mixedUp' = (mixedUp \/ LeavesMixture(a))
    /\ UNCHANGED <<disk, runs, made, address, expired, retired, aged>>

\* A file is changed under another that is at work and may use it.
Uses(b) == CaFiles \cup {f \in LeafFiles : f[1] = b \/ b \notin Services}
Disturbs(a, f) == \E b \in Actors \ {a} : Running(b) /\ f \in Uses(b)

(***************************************************************************)
(* The tasks.                                                              *)
(***************************************************************************)

\* load_verify_locations
LoadTrust(s) ==
    /\ At(s, "trust", "begin")
    /\ IF disk[CaCert] \in {NoFile, Blank} THEN Exits(s)
       ELSE Load(s, "trust", disk[CaCert].pair) /\ Finish(s)
    /\ UNCHANGED <<disk, runs, made, address, expired, retired, aged, mixedUp, mishaps>>

\* What preflight requires: the CA certificate, and that no certificate has expired.
Sound == disk[CaCert] # NoFile /\ \A f \in Files : f[2] = "cert" => disk[f].pair \notin expired

CheckSound(s) ==
    /\ At(s, "preflight", "begin")
    /\ IF Sound THEN Finish(s) /\ UNCHANGED held ELSE Exits(s)
    /\ UNCHANGED <<disk, runs, made, address, expired, retired, aged, mixedUp, mishaps>>

\* With its leaf on disk a service loads it; provision_certs goes on.
Issued(a) == IF a \in Services THEN Goto(a, <<"chain">>) ELSE Finish(a)

FindLeaf(a) ==
    /\ At(a, "issue", "begin")
    /\ IF Reusable(Head(run[a].todo).leaf, run[a].at) THEN Issued(a) ELSE Goto(a, <<"ca">>)
    /\ UNCHANGED <<disk, held, runs, made, address, expired, retired, aged, mixedUp, mishaps>>

\* Mutated: the key alone is looked for.
HasCAKey == disk[CaKey] # NoFile

\* ensure_ca
HasCA == disk[CaKey] # NoFile /\ disk[CaCert] # NoFile

FindCA(a) ==
    /\ At(a, "issue", "ca") \/ At(a, "ca", "begin")
    /\ IF HasCA
       THEN /\ IF At(a, "ca", "begin") THEN Finish(a) ELSE Goto(a, <<"load">>)
            /\ UNCHANGED made
       ELSE /\ made' = made + 1
            /\ run' = [run EXCEPT ![a] = [@ EXCEPT !.step = <<"open", CaKey>>, !.pair = made']]
    /\ UNCHANGED <<disk, held, runs, address, expired, retired, aged, mixedUp, mishaps>>

\* _load_ca: the leaf is signed with the key that is on disk now.
LoadCA(a) ==
    /\ At(a, "issue", "load")
    /\ IF disk[CaKey] \in {NoFile, Blank} \/ disk[CaCert] \in {NoFile, Blank}
       THEN Exits(a) /\ UNCHANGED made
       ELSE /\ made' = made + 1
            /\ run' = [run EXCEPT ![a] = [@ EXCEPT !.pair = made', !.by = disk[CaKey].pair,
                                                  !.step = <<"open", KeyOf(Head(run[a].todo).leaf)>>]]
            /\ UNCHANGED held
    /\ UNCHANGED <<disk, runs, address, expired, retired, aged, mixedUp, mishaps>>

OpenFile(a) ==
    \E f \in Files :
        /\ Running(a) /\ run[a].step = <<"open", f>>
        /\ disk' = [disk EXCEPT ![f] = Blank]
        /\ Goto(a, <<"write", f>>)
        /\ mixedUp' = (mixedUp \/ Disturbs(a, f))
        /\ UNCHANGED <<held, runs, made, address, expired, retired, aged, mishaps>>

Content(a, f) ==
    CASE f[2] = "key" -> Holds(run[a].pair, 0, 0)
      [] f = CaCert   -> Holds(run[a].pair, run[a].pair, 0)
      [] OTHER        -> Holds(run[a].pair, run[a].by, run[a].at)

\* The key is written first, then the certificate.
WriteFile(a) ==
    \E f \in Files :
        /\ Running(a) /\ run[a].step = <<"write", f>>
        /\ disk' = [disk EXCEPT ![f] = Content(a, f)]
        /\ \/ f[2] = "key" /\ Goto(a, <<"open", <<f[1], "cert">>>>)
           \/ f = CaCert /\ IF Head(run[a].todo) = Ensure THEN Finish(a) ELSE Goto(a, <<"load">>)
           \/ f[2] = "cert" /\ f # CaCert /\ Issued(a)
        /\ mixedUp' = (mixedUp \/ Disturbs(a, f))
        /\ UNCHANGED <<held, runs, made, address, expired, retired, aged, mishaps>>

Matching(s) ==
    /\ {disk[KeyOf(s)], disk[CertOf(s)]} \cap {NoFile, Blank} = {}
    /\ disk[KeyOf(s)].pair = disk[CertOf(s)].pair

\* load_cert_chain refuses a key that is not the certificate's.
LoadChain(s) ==
    /\ At(s, "issue", "chain")
    /\ IF Matching(s) THEN Load(s, "leaf", disk[CertOf(s)]) /\ Finish(s) ELSE Exits(s)
    /\ UNCHANGED <<disk, runs, made, address, expired, retired, aged, mixedUp, mishaps>>

\* Mutated: a file that is missing is not skipped.
RetiresUnchecked(f) == IF f \in CaFiles THEN {disk[f].pair} ELSE {}

Retires(f) == IF f \in CaFiles THEN {disk[f].pair} \ {0} ELSE {}

\* _archive: the CA certificate, its key, then the leaves.  Nothing is made afterwards:
\* provision_certs.main exits for want of its arguments.
MoveFile ==
    /\ At(Rotate, "move", "begin")
    /\ LET fs == Head(run[Rotate].todo).files IN
       IF fs = {} THEN Finish(Rotate) /\ UNCHANGED <<disk, retired, mixedUp>>
       ELSE \E f \in fs :
            /\ CaCert \in fs => f = CaCert
            /\ CaKey \in fs => f \in CaFiles
            /\ disk' = [disk EXCEPT ![f] = NoFile]
            /\ retired' = retired \cup Retires(f)
            /\ run' = [run EXCEPT ![Rotate].todo = <<Move(fs \ {f})>>]
            /\ mixedUp' = (mixedUp \/ Disturbs(Rotate, f))
    /\ UNCHANGED <<held, runs, made, address, expired, aged, mishaps>>

(***************************************************************************)
(* The world.                                                              *)
(***************************************************************************)

Started == {s \in Services : Running(s) \/ Up(s)}

Readdress ==
    /\ mishaps < MaxMishaps
    /\ mishaps' = mishaps + 1
    /\ address' = address + 1
    /\ aged' = aged \cup Started
    /\ UNCHANGED <<disk, run, held, runs, made, expired, retired, mixedUp>>

Expire ==
    /\ mishaps < MaxMishaps
    /\ mishaps' = mishaps + 1
    /\ \E v \in 1 .. made : expired' = expired \cup {v}
    /\ aged' = aged \cup Started
    /\ UNCHANGED <<disk, run, held, runs, made, address, retired, mixedUp>>

CertNext ==
    \/ \E a \in Actors :
           \/ Start(a) \/ Kill(a)
           \/ FindLeaf(a) \/ FindCA(a) \/ LoadCA(a) \/ OpenFile(a) \/ WriteFile(a)
    \/ \E s \in Services : LoadTrust(s) \/ CheckSound(s) \/ LoadChain(s) \/ Stop(s)
    \/ MoveFile
    \/ Readdress \/ Expire

CertSpec == CertInit /\ [][CertNext]_certVars

(***************************************************************************)
(* Properties.                                                             *)
(***************************************************************************)

\* The mutual TLS handshake: each trusts the CA that signed the other's leaf, and the
\* server's leaf names the address that was dialled.
Shakes(c, s) ==
    /\ held[s].leaf.by = held[c].trust /\ held[c].leaf.by = held[s].trust
    /\ held[s].leaf.at = address
    /\ {held[c].leaf.pair, held[s].leaf.pair, held[c].trust, held[s].trust} \cap expired = {}

\* Two services that are up shake hands (tools/provision_certs.py on a failure that does
\* not name "the real cause": "both look like application bugs"), unless the CA was rotated since one of them
\* started (tools/rotate_keys.py: "Until every service has been restarted [...] mTLS
\* handshakes WILL FAIL"), an address changed or a certificate expired since then, or
\* files have been mixed up.
HandshakeFailureHasCause ==
    \A s \in Services \ {Gateway} :
        Up(Gateway) /\ Up(s) /\ ~Shakes(Gateway, s) =>
            \/ mixedUp
            \/ s \in aged \/ Gateway \in aged
            \/ {held[s].trust, held[Gateway].trust} \cap retired # {}

\* There is no CA, and no leaf that one has signed.
Unprovisioned ==
    disk[CaCert] = NoFile /\ \A s \in Services : disk[CertOf(s)] \in {NoFile, Blank}

HasExpired == \E f \in Files : f[2] = "cert" /\ disk[f].pair \in expired

\* What is at work alone fails only for what provision_certs is there for: a service stops
\* for want of the CA only where no leaf is left either, and else only for an expired
\* certificate; a leaf it goes on to make or to load never fails it, whatever runs ended
\* half-way before (common/tls_utils.py: issued "if it doesn't exist yet.  Idempotent",
\* and "without manually deleting stale certificates").  Files that have been mixed up
\* are the exception.  On an empty disk every service stops: none makes the CA.
FailedStartHasCause ==
    \A a \in Actors : ~mixedUp /\ ~Disturbs(a, CaCert) =>
        /\ a \in Services =>
               /\ At(a, "trust", "begin") /\ disk[CaCert] \in {NoFile, Blank} => Unprovisioned
               /\ At(a, "preflight", "begin") /\ ~Sound => Unprovisioned \/ HasExpired
        /\ At(a, "issue", "load")  => {disk[CaKey], disk[CaCert]} \cap {NoFile, Blank} = {}
        /\ At(a, "issue", "chain") => Matching(a)
=============================================================================
