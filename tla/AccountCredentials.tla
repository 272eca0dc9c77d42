------------------------ MODULE AccountCredentials ------------------------
(* The gateway's two brokers of short-lived AWS credentials: bearer tokens for
   Mantle, and Bedrock clients for another account.  Each caches what it makes
   and holds one lock over the whole of a miss, STS call included; time passes
   while a request awaits an answer. *)
EXTENDS Integers, FiniteSets

CONSTANTS
  InFlight,        \* bound: requests in progress
  MaxRequests,     \* bound: requests in a behaviour
  Profiles,        \* routing profiles: [backend, role, region, ext, model]
  InAccount,       \* the role of a profile without account_role_arn
  NoCreds,         \* an absent cache entry, a free lock
  AssumeDuration, RefreshSkew,   \* _ASSUME_DURATION, _CRED_REFRESH_SKEW
  BearerTTL, BearerSkew,         \* _BEARER_TTL, _BEARER_CRED_SKEW
  OwnLives,        \* how long the pod's own credentials may still live
  LastTick         \* bound: the end of time

ASSUME CredentialAssumption ==
  /\ {AssumeDuration, RefreshSkew, BearerTTL, BearerSkew} \subseteq Nat
  /\ {InFlight, MaxRequests, LastTick} \subseteq Nat
  /\ RefreshSkew < BearerTTL /\ BearerTTL < AssumeDuration
  /\ OwnLives \subseteq Nat
  /\ NoCreds \notin 1 .. InFlight
  /\ Profiles \subseteq
       [backend : {"mantle", "invoke"}, role : {p.role : p \in Profiles},
        region : {p.region : p \in Profiles}, ext : {p.ext : p \in Profiles},
        model : BOOLEAN]

Adapters == 1 .. InFlight   \* one per request in progress
Roles == {p.role : p \in Profiles}
Regions == {p.region : p \in Profiles}
Exts == {p.ext : p \in Profiles}

VARIABLES
  clock,
  creds,      \* MantleCredentialBroker._creds: per role
  bearers,    \* its _bearers: per role and region
  clients,    \* BedrockAccountClientProvider._clients: per role, region, ext
  holder,     \* who holds each broker's lock
  use,        \* per slot: the profile, where it stands, what it is given
  requests

credVars == <<clock, creds, bearers, clients, holder, use, requests>>

(* Credentials: when they were issued, when they die, and the external id they
   were asked with.  The broker never sees the first. *)
Issued(born, life, ext) == [born |-> born, dies |-> born + life, ext |-> ext]

Here == [role |-> InAccount, region |-> NoCreds]
NoUse == [at |-> "idle", via |-> "bedrock", profile |-> NoCreds,
          since |-> 0, using |-> NoCreds, got |-> Here, when |-> 0]

CredentialsInit ==
  /\ clock = 0
  /\ creds = [r \in Roles |-> NoCreds]
  /\ bearers = [k \in Roles \X Regions |-> NoCreds]
  /\ clients = [k \in Roles \X Regions \X Exts |-> NoCreds]
  /\ holder = [b \in {"mantle", "native"} |-> NoCreds]
  /\ use = [q \in Adapters |-> NoUse]
  /\ requests = 0

-----------------------------------------------------------------------------
(* The profile names another account for native calls. *)
Native(p) == p.backend = "invoke" /\ p.role # InAccount

(* Rule A: a mantle profile with a default model takes every request; rule B:
   an alias of Mantle goes there by any profile; else Bedrock, in the profile's
   account if it names one. *)
Backend(p, mantleAlias) ==
  CASE (p.backend = "mantle" /\ p.model) \/ mantleAlias -> "mantle"
    [] ~mantleAlias /\ Native(p) -> "native"
    [] OTHER -> "bedrock"

(* The next request, with profile p, gets an adapter of its own; the default one
   needs no broker. *)
Route(q, p, mantleAlias) ==
  /\ use[q].at = "idle" /\ \A other \in 1 .. q - 1 : use[other].at # "idle"
  /\ requests < MaxRequests
  /\ requests' = requests + 1
  /\ use' = [use EXCEPT ![q] =
       [NoUse EXCEPT !.profile = p, !.via = Backend(p, mantleAlias),
          !.at = CASE Backend(p, mantleAlias) = "mantle" -> "bearer"
                   [] Backend(p, mantleAlias) = "native" -> "client"
                   [] OTHER -> "inAccount"]]
  /\ UNCHANGED <<clock, creds, bearers, clients, holder>>

BearerKey(q) == <<use[q].profile.role, use[q].profile.region>>
ClientKey(q) ==
  <<use[q].profile.role, use[q].profile.region, use[q].profile.ext>>

(* What a request ends up with: credentials, and where they are good. *)
Serve(c, using, role, region) ==
  [c EXCEPT !.at = "served", !.using = using, !.when = clock,
            !.got = [role |-> role, region |-> region]]

Waits(q, point) == [use[q] EXCEPT !.at = point, !.since = clock]

Lock(b, q) == holder' = [holder EXCEPT ![b] = q]
Unlock(b) == holder' = [holder EXCEPT ![b] = NoCreds]

-----------------------------------------------------------------------------
(* MantleCredentialBroker.bearer_token. *)
BearerCached(q) ==
  LET b == bearers[BearerKey(q)] IN b # NoCreds /\ b.until > clock

BearerHit(q) ==
  /\ use[q].at = "bearer" /\ holder["mantle"] = NoCreds
  /\ BearerCached(q)
  /\ LET b == bearers[BearerKey(q)]
     IN use' = [use EXCEPT ![q] = Serve(Waits(q, "bearer"), b.from, b.role, b.region)]
  /\ UNCHANGED <<clock, creds, bearers, clients, holder, requests>>

(* Cached credentials are used while more than the skew is left of them. *)
Fresh(c) == c # NoCreds /\ c.dies - RefreshSkew > clock

(* A miss keeps the lock, and `now`, to its end. *)
BearerMiss(q) ==
  LET role == use[q].profile.role IN
  /\ use[q].at = "bearer" /\ holder["mantle"] = NoCreds
  /\ ~BearerCached(q)
  /\ Lock("mantle", q)
  /\ use' = [use EXCEPT ![q] =
       CASE role = InAccount -> Waits(q, "own")
         [] role # InAccount /\ Fresh(creds[role]) ->
              [Waits(q, "mint") EXCEPT !.using = creds[role]]
         [] OTHER -> Waits(q, "assume")]
  /\ UNCHANGED <<clock, creds, bearers, clients, requests>>

(* The answer of STS: an hour from some moment of the call.  Bearers minted
   from the role's earlier credentials are dropped, whatever their region. *)
Assumed(q) ==
  LET role == use[q].profile.role IN
  /\ use[q].at = "assume"
  /\ \E born \in use[q].since .. clock :
       /\ creds' = [creds EXCEPT ![role] = Issued(born, AssumeDuration, use[q].profile.ext)]
       /\ use' = [use EXCEPT ![q].at = "mint",
                               ![q].using = Issued(born, AssumeDuration, use[q].profile.ext)]
  /\ bearers' = [k \in DOMAIN bearers |->
                   IF k[1] = role THEN NoCreds ELSE bearers[k]]
  /\ UNCHANGED <<clock, clients, holder, requests>>

(* The pod's own credentials, whose expiry is not read. *)
OwnRead(q) ==
  /\ use[q].at = "own"
  /\ \E life \in OwnLives :
       use' = [use EXCEPT ![q].at = "mint", ![q].using = Issued(clock, life, use[q].profile.ext)]
  /\ UNCHANGED <<clock, creds, bearers, clients, holder, requests>>

(* When the cached bearer is no longer given out: its own term, and before
   what the broker takes for the end of its credentials. *)
UntilByTerm(c) == c.since + BearerTTL
LeastOf(a, b) == IF a <= b THEN a ELSE b
Until(c) ==
  LeastOf(c.since + BearerTTL,
          (IF c.profile.role = InAccount THEN c.since + AssumeDuration
           ELSE creds[c.profile.role].dies) - BearerSkew)

Minted(q) ==
  /\ use[q].at = "mint"
  /\ bearers' = [bearers EXCEPT ![BearerKey(q)] =
       [from |-> use[q].using, until |-> Until(use[q]),
        role |-> use[q].profile.role, region |-> use[q].profile.region]]
  /\ use' = [use EXCEPT ![q] =
       Serve(@, @.using, @.profile.role, @.profile.region)]
  /\ Unlock("mantle")
  /\ UNCHANGED <<clock, creds, clients, requests>>

(* STS or the signer raises, or the client is gone: the adapter answers 502,
   with nothing kept but credentials already assumed. *)
BearerFails(q) ==
  /\ use[q].at \in {"assume", "own", "mint"}
  /\ Unlock("mantle")
  /\ use' = [use EXCEPT ![q] = NoUse]
  /\ UNCHANGED <<clock, creds, bearers, clients, requests>>

-----------------------------------------------------------------------------
(* BedrockAccountClientProvider.get_client. *)
ClientCached(q) ==
  LET c == clients[ClientKey(q)] IN c # NoCreds /\ Fresh(c.from)

ClientHit(q) ==
  LET k == ClientKey(q) IN
  /\ use[q].at = "client" /\ holder["native"] = NoCreds
  /\ ClientCached(q)
  /\ use' = [use EXCEPT ![q] =
       Serve(Waits(q, "client"), clients[k].from, clients[k].role, clients[k].region)]
  /\ UNCHANGED <<clock, creds, bearers, clients, holder, requests>>

ClientMiss(q) ==
  /\ use[q].at = "client" /\ holder["native"] = NoCreds
  /\ ~ClientCached(q)
  /\ Lock("native", q)
  /\ use' = [use EXCEPT ![q] = Waits(q, "assumeClient")]
  /\ UNCHANGED <<clock, creds, bearers, clients, requests>>

ClientAssumed(q) ==
  /\ use[q].at = "assumeClient"
  /\ \E born \in use[q].since .. clock :
       use' = [use EXCEPT ![q].at = "build",
                            ![q].using = Issued(born, AssumeDuration, use[q].profile.ext)]
  /\ UNCHANGED <<clock, creds, bearers, clients, holder, requests>>

ClientBuilt(q) ==
  LET p == use[q].profile
  IN /\ use[q].at = "build"
     /\ clients' = [clients EXCEPT ![ClientKey(q)] =
          [from |-> use[q].using, role |-> p.role, region |-> p.region]]
     /\ use' = [use EXCEPT ![q] = Serve(@, @.using, p.role, p.region)]
     /\ Unlock("native")
     /\ UNCHANGED <<clock, creds, bearers, requests>>

(* The role cannot be assumed: the adapter takes the in-account client. *)
ClientFails(q) ==
  /\ use[q].at \in {"assumeClient", "build"}
  /\ Unlock("native")
  /\ use' = [use EXCEPT ![q] = [@ EXCEPT !.at = "inAccount", !.using = NoCreds]]
  /\ UNCHANGED <<clock, creds, bearers, clients, requests>>

-----------------------------------------------------------------------------
(* The upstream call is over, or the client left before the lock was its. *)
Leave(q) ==
  /\ use[q].at \in {"served", "inAccount", "bearer", "client"}
  /\ use' = [use EXCEPT ![q] = NoUse]
  /\ UNCHANGED <<clock, creds, bearers, clients, holder, requests>>

Passes ==
  /\ clock < LastTick /\ clock' = clock + 1
  /\ UNCHANGED <<creds, bearers, clients, holder, use, requests>>

CredentialsNext ==
  \/ Passes
  \/ \E q \in Adapters :
       \/ \E p \in Profiles, mantleAlias \in BOOLEAN : Route(q, p, mantleAlias)
       \/ BearerHit(q) \/ BearerMiss(q) \/ Assumed(q) \/ OwnRead(q)
       \/ Minted(q) \/ BearerFails(q)
       \/ ClientHit(q) \/ ClientMiss(q) \/ ClientAssumed(q) \/ ClientBuilt(q)
       \/ ClientFails(q) \/ Leave(q)

CredentialsSpec == CredentialsInit /\ [][CredentialsNext]_credVars

-----------------------------------------------------------------------------
(* A dead credential is given out only when signing or building took longer
   than the skew kept for it, or when the pod's own credentials lived shorter
   than a bearer's term: the caches alone never serve one
   (mantle_credentials.py:27-30). *)
DeadHasCause(q) ==
  LET c == use[q] IN
  c.using.dies <= c.when =>
    \/ c.when - c.since > RefreshSkew
    \/ c.got.role = InAccount /\ c.using.dies - c.using.born < BearerTTL

(* What a request is given is of its own profile's account and region, and a
   client also of its external id, whoever made it
   (bedrock_account_client.py:9-10). *)
OfItsProfile(q) ==
  LET c == use[q] IN
  /\ c.got.role = c.profile.role /\ c.got.region = c.profile.region
  /\ c.via = "native" => c.using.ext = c.profile.ext

CredentialsUsable ==
  \A q \in Adapters : use[q].at = "served" => DeadHasCause(q) /\ OfItsProfile(q)
============================================================================
