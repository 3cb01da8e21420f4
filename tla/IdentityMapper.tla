--------------------------- MODULE IdentityMapper ---------------------------
(***************************************************************************)
(* connectors/common identity.py: platform senders mapped to identities in *)
(* a table, behind a cache with a time to live in each process.            *)
(*                                                                         *)
(* One asyncio process is modelled; others write the same table.  Code     *)
(* between two awaits is one action.  A statement commits at the server    *)
(* between the await's start and its return: a lookup reads and returns,   *)
(* an update commits and returns, in separate actions.                     *)
(***************************************************************************)
EXTENDS Naturals

CONSTANTS
  Senders, Identities,
  Anonymous,     \* what a sender without a row is mapped to
  Mappers,       \* concurrent map_sender calls
  Admins,        \* concurrent create_mapping or delete_mapping calls
  Ttl,           \* cache_ttl_s
  MaxIdentityTime, MaxCommits  \* bounds

ASSUME IdentityAssumption ==
  /\ Senders # {} /\ Anonymous \notin Identities
  /\ Ttl \in Nat /\ MaxIdentityTime \in Nat /\ MaxCommits \in Nat

VARIABLES
  mappingOf,     \* the table: the identity of a sender, Anonymous without a row
  changedAt,     \* when the sender's row was last committed, and if the cache's owner knows
  idCache,       \* _cache, with expires_at
  mapper,        \* the map_sender calls
  admin,         \* the update calls
  idNow, commits \* time.monotonic(), commits so far

identityVars == <<mappingOf, changedAt, idCache, mapper, admin, idNow, commits>>

Mapped == Identities \cup {Anonymous}

\* raced: a commit of the row came between the lookup's read and the fill.
NoEntry == [filled |-> FALSE, mapping |-> Anonymous, expires |-> 0, raced |-> FALSE]
CacheEntry == [filled : BOOLEAN, mapping : Mapped, expires : Nat, raced : BOOLEAN]

IdleMapper == [pc |-> "idle", sender |-> CHOOSE s \in Senders : TRUE, mapping |-> Anonymous,
               raced |-> FALSE]
IdleAdmin == [pc |-> "idle", sender |-> CHOOSE s \in Senders : TRUE, mapping |-> Anonymous]

IdentityInit ==
  /\ mappingOf = [s \in Senders |-> Anonymous]
  /\ changedAt = [s \in Senders |-> [at |-> 0, here |-> TRUE]]
  /\ idCache = [s \in Senders |-> NoEntry]
  /\ mapper = [c \in Mappers |-> IdleMapper]
  /\ admin = [a \in Admins |-> IdleAdmin]
  /\ idNow = 0 /\ commits = 0

Live(s) == idCache[s].filled /\ idCache[s].expires > idNow

-----------------------------------------------------------------------------
(* map_sender.  A live cache entry is returned at once and changes nothing.  *)

MapSenderMiss(c, s) ==
  /\ mapper[c].pc = "idle" /\ ~Live(s)
  /\ mapper' = [mapper EXCEPT ![c] = [IdleMapper EXCEPT !.pc = "asked", !.sender = s]]
  /\ UNCHANGED <<mappingOf, changedAt, idCache, admin, idNow, commits>>

ReadMapping(c) ==
  /\ mapper[c].pc = "asked"
  /\ mapper' = [mapper EXCEPT ![c].pc = "read", ![c].mapping = mappingOf[mapper[c].sender]]
  /\ UNCHANGED <<mappingOf, changedAt, idCache, admin, idNow, commits>>

FillCache(c) ==
  LET call == mapper[c]
  IN  /\ call.pc = "read"
      /\ idCache' = [idCache EXCEPT ![call.sender] =
                      [filled |-> TRUE, mapping |-> call.mapping, expires |-> idNow + Ttl,
                       raced |-> call.raced]]
      /\ mapper' = [mapper EXCEPT ![c] = IdleMapper]
      /\ UNCHANGED <<mappingOf, changedAt, admin, idNow, commits>>

\* The lookup raises: nothing is cached.
LookupFails(c) ==
  /\ mapper[c].pc = "asked"
  /\ mapper' = [mapper EXCEPT ![c] = IdleMapper]
  /\ UNCHANGED <<mappingOf, changedAt, idCache, admin, idNow, commits>>

-----------------------------------------------------------------------------
(* create_mapping (an upsert) and delete_mapping (to Anonymous).             *)

BeginUpdate(a, s, m) ==
  /\ admin[a].pc = "idle"
  /\ admin' = [admin EXCEPT ![a] = [pc |-> "asked", sender |-> s, mapping |-> m]]
  /\ UNCHANGED <<mappingOf, changedAt, idCache, mapper, idNow, commits>>

\* The row changes under the lookups that have read it.
Commit(s, m, here) ==
  /\ commits < MaxCommits /\ commits' = commits + 1
  /\ mappingOf' = [mappingOf EXCEPT ![s] = m]
  /\ changedAt' = [changedAt EXCEPT ![s] = [at |-> idNow, here |-> here]]
  /\ mapper' = [c \in Mappers |->
                  IF mapper[c].pc = "read" /\ mapper[c].sender = s
                  THEN [mapper[c] EXCEPT !.raced = TRUE] ELSE mapper[c]]

CommitUpdate(a) ==
  /\ admin[a].pc = "asked"
  /\ Commit(admin[a].sender, admin[a].mapping, TRUE)
  /\ admin' = [admin EXCEPT ![a].pc = "committed"]
  /\ UNCHANGED <<idCache, idNow>>

\* Mutant of FinishUpdate: delete_mapping returns without busting the cache.
FinishUpdateMutant(a) ==
  /\ admin[a].pc = "committed"
  /\ idCache' = IF admin[a].mapping = Anonymous THEN idCache
                ELSE [idCache EXCEPT ![admin[a].sender] = NoEntry]
  /\ admin' = [admin EXCEPT ![a] = IdleAdmin]
  /\ UNCHANGED <<mappingOf, changedAt, mapper, idNow, commits>>

FinishUpdate(a) ==
  /\ admin[a].pc = "committed"
  /\ idCache' = [idCache EXCEPT ![admin[a].sender] = NoEntry]
  /\ admin' = [admin EXCEPT ![a] = IdleAdmin]
  /\ UNCHANGED <<mappingOf, changedAt, mapper, idNow, commits>>

\* The statement raises, before or after it was committed: the pop is skipped.
UpdateFails(a) ==
  /\ admin[a].pc # "idle"
  /\ admin' = [admin EXCEPT ![a] = IdleAdmin]
  /\ changedAt' = IF admin[a].pc = "committed"
                  THEN [changedAt EXCEPT ![admin[a].sender].here = FALSE] ELSE changedAt
  /\ UNCHANGED <<mappingOf, idCache, mapper, idNow, commits>>

-----------------------------------------------------------------------------
\* Another process, with a cache of its own, updates the table.
CommitElsewhere(s, m) == Commit(s, m, FALSE) /\ UNCHANGED <<idCache, admin, idNow>>

IdentityTick ==
  /\ idNow < MaxIdentityTime /\ idNow' = idNow + 1
  /\ UNCHANGED <<mappingOf, changedAt, idCache, mapper, admin, commits>>

IdentityNext ==
  \/ \E c \in Mappers, s \in Senders : MapSenderMiss(c, s)
  \/ \E c \in Mappers : ReadMapping(c) \/ FillCache(c) \/ LookupFails(c)
  \/ \E a \in Admins, s \in Senders, m \in Mapped : BeginUpdate(a, s, m)
  \/ \E a \in Admins : CommitUpdate(a) \/ FinishUpdate(a) \/ UpdateFails(a)
  \/ \E s \in Senders, m \in Mapped : CommitElsewhere(s, m)
  \/ IdentityTick

IdentitySpec == IdentityInit /\ [][IdentityNext]_identityVars

-----------------------------------------------------------------------------
IdentityTypeOK ==
  /\ mappingOf \in [Senders -> Mapped]
  /\ changedAt \in [Senders -> [at : Nat, here : BOOLEAN]]
  /\ idCache \in [Senders -> CacheEntry]
  /\ mapper \in [Mappers -> [pc : {"idle", "asked", "read"}, sender : Senders,
                             mapping : Mapped, raced : BOOLEAN]]
  /\ admin \in [Admins -> [pc : {"idle", "asked", "committed"}, sender : Senders,
                           mapping : Mapped]]
  /\ idNow \in Nat /\ commits \in Nat

Busting(s) == \E a \in Admins : admin[a].pc = "committed" /\ admin[a].sender = s

\* map_sender answers with an identity the sender no longer has only from an entry that
\* a lookup filled across a commit, or for less than the time to live after the change;
\* a change made by this process hides behind the cache only until its update returns.
MappingFresh ==
  \A s \in Senders :
    Live(s) /\ idCache[s].mapping # mappingOf[s] /\ ~idCache[s].raced =>
      /\ idNow < changedAt[s].at + Ttl
      /\ changedAt[s].here => Busting(s)

=============================================================================
