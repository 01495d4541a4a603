------------------------- MODULE CodexManagerProofs -------------------------
(***************************************************************************)
(* For any number of accounts, in both modes and with every storage: no    *)
(* order of steps, failed writes, crashes and restarts loses the login the *)
(* user had, a lease id that is good is the lease of the account in use,   *)
(* and no token that could be pushed to the vault is overwritten.          *)
(***************************************************************************)
EXTENDS CodexManager, FiniteSetTheorems, TLAPS

-----------------------------------------------------------------------------
(* The inductive invariant. *)

Gens == 1 .. (CxMaxEvents + 1)

\* A login, or none; a row; the locals of a reconcile.
MaybeCred == [acc : CxAccounts \cup {0}, gen : Gens] \cup {None}
RowType == [gen : Gens, ok : BOOLEAN, pin : {"none", "me", "any"}]
GotType == [raw : MaybeCred, seen : Gens \cup {0}, want : MaybeCred, lease : LeaseStates,
            failed : BOOLEAN]

\* The types, of the parts that the steps change together.
VaultOK ==
    /\ row \in [CxAccounts -> RowType] /\ auto \in BOOLEAN
    /\ holder \in [CxAccounts -> {"none", "me", "other"}]
DiskOK ==
    /\ ring \in MaybeCred /\ file \in MaybeCred
    /\ backup \in [was : MaybeCred] \cup {None}
MemOK == cur \in CxAccounts \cup {0} /\ lease \in LeaseStates /\ got \in GotType
RunOK ==
    /\ mode \in CxModes /\ place \in CxStorages
    /\ auto \in BOOLEAN /\ idle \in BOOLEAN /\ ringUp \in BOOLEAN
    /\ up \in {"run", "quit", "off"} /\ pc \in PcStates

\* A token has at most one generation per event.
TokensOK ==
    /\ events \in 0 .. CxMaxEvents
    /\ issued \in [CxAccounts -> Gens] /\ lapsed \in [CxAccounts -> Gens \cup {0}]
    /\ login \in Gens /\ login <= events + 1
    /\ \A a \in CxAccounts : issued[a] <= events + 1

\* A lease id that is good is the lease of the account it stands for.
LeaseOK ==
    /\ lease = "live" => cur \in CxAccounts /\ holder[cur] = "me"
    /\ pc \in {"lease", "load", "save", "mark"} => got.want # None /\ got.want.acc \in CxAccounts
    /\ got.lease = "live" =>
         /\ pc \in {"load", "save", "mark"}
         /\ got.want # None /\ got.want.acc \in CxAccounts /\ holder[got.want.acc] = "me"

\* Nobody has a token that was not issued.
Known(c) == c # None /\ c.acc \in CxAccounts => c.gen <= issued[c.acc]
KnownOK ==
    /\ \A a \in CxAccounts : row[a].gen <= issued[a]
    /\ Known(ring) /\ Known(file) /\ Known(got.raw) /\ Known(got.want)
    /\ backup # None => Known(backup.was)

\* What a reconcile read of the device's token, once it looked: it is in the row, or
\* it could not be pushed.
Looked == got.raw # None /\ got.raw.acc \in CxAccounts
SyncOK ==
    /\ pc = "idle" => got = NoGot
    /\ Looked => got.seen <= row[got.raw.acc].gen
    /\ Looked /\ pc # "sync" =>
         \/ got.failed \/ got.raw.gen <= lapsed[got.raw.acc]
         \/ row[got.raw.acc].gen # got.seen
         \/ got.raw.gen <= row[got.raw.acc].gen

\* The user's login is where the CLI looks, or in the backup, which is there before
\* the first account of the pool is, and until the login is back.
NativeOK ==
    excused = {} =>
        /\ ringUp
        /\ IF backup = None THEN Stored = Cred(0, login) ELSE backup.was = Cred(0, login)
        /\ pc = "save" => backup # None
        /\ pc = "unback" => backup # None /\ Stored = Cred(0, login)

ManagerIInv ==
    /\ VaultOK /\ DiskOK /\ MemOK /\ RunOK /\ TokensOK
    /\ LeaseOK /\ KnownOK /\ SyncOK /\ NativeOK
-----------------------------------------------------------------------------
(* Constants and data. *)

\* The numbers are numbers, and None is no record.
LEMMA Parameters ==
    /\ CxAccounts \subseteq Nat \ {0} /\ 0 \notin CxAccounts /\ CxMaxEvents \in Nat
    /\ Gens \subseteq Nat /\ 1 \in Gens /\ 0 \notin Gens /\ \A g \in Gens \cup {0} : g \in Nat
    /\ CxStorages \subseteq {"file", "keyring", "auto"} /\ CxModes \subseteq {"remote", "local"}
    /\ None \notin [acc : CxAccounts \cup {0}, gen : Gens] /\ None \notin [was : MaybeCred]
<1>1. /\ CxAccounts \subseteq Nat \ {0} /\ CxMaxEvents \in Nat /\ Gens \subseteq Nat
      /\ CxAccounts \cup {0} \subseteq Nat
  BY CxAssumption DEF Gens
<1>2. \A c \in [acc : CxAccounts \cup {0}, gen : Gens] : c \in [acc : Nat, gen : Nat]
  BY <1>1
<1>3. \A b \in [was : MaybeCred] : b \in [was : [acc : Nat, gen : Nat] \cup {None}]
  BY <1>2 DEF MaybeCred
<1> QED BY <1>1, <1>2, <1>3, CxAssumption DEF Gens

\* A set of accounts has a smallest one: the accounts up to one of them are finitely
\* many, so some account has the fewest below it.
LEMMA MinIsMember ==
    ASSUME NEW T, T \subseteq Nat, T # {}
    PROVE  Min(T) \in T
<1> DEFINE U(n) == {k \in T : k <= n}
           F == {U(n) : n \in T}
           R == StrictSubsetOrdering(Nat)
<1>1. \A n \in T : IsFiniteSet(U(n))
  <2> SUFFICES ASSUME NEW n \in T PROVE IsFiniteSet(U(n))
    OBVIOUS
  <2> DEFINE V == U(n)
  <2>1. V \in SUBSET Nat /\ n \in Nat /\ \A k \in V : k <= n
    OBVIOUS
  <2> HIDE DEF V
  <2>2. IsFiniteSet(V)
    BY <2>1, FS_BoundedSetOfNaturals
  <2> QED BY <2>2 DEF V
<1>2. F \subseteq FiniteSubsetsOf(Nat) /\ F # {}
  BY <1>1 DEF FiniteSubsetsOf
<1>3. IsWellFoundedOn(R, FiniteSubsetsOf(Nat))
  BY FS_StrictSubsetOrderingWellFounded
<1>4. \E x \in F : \A y \in F : ~ (<<y, x>> \in R)
  <2> HIDE DEF F, R
  <2> QED BY <1>2, <1>3, WFMin
<1>5. PICK n \in T : \A m \in T : ~ (<<U(m), U(n)>> \in R)
  BY <1>4
<1>6. \A m \in T : n <= m
  <2> SUFFICES ASSUME NEW m \in T, m < n PROVE FALSE
    OBVIOUS
  <2>1. U(m) \subseteq U(n) /\ n \in U(n) /\ n \notin U(m)
    <3>1. m \in Nat /\ n \in Nat /\ \A k \in T : k \in Nat
      OBVIOUS
    <3>2. \A k \in T : k <= m => k <= n
      BY <3>1
    <3>3. ~ (n <= m) /\ n <= n
      BY <3>1
    <3> QED BY <3>2, <3>3
  <2>2. U(m) \in SUBSET Nat /\ U(n) \in SUBSET Nat
    OBVIOUS
  <2>3. <<U(m), U(n)>> \in R
    BY <2>1, <2>2 DEF StrictSubsetOrdering
  <2> QED BY <2>3, <1>5
<1> QED BY <1>6 DEF Min

\* Credentials have an account and a generation.
LEMMA Credentials ==
    /\ None \in MaybeCred
    /\ \A a \in CxAccounts \cup {0}, g \in Gens :
         /\ Cred(a, g) \in MaybeCred /\ Cred(a, g) # None
         /\ Cred(a, g).acc = a /\ Cred(a, g).gen = g
    /\ \A c \in MaybeCred : c # None => c.acc \in CxAccounts \cup {0} /\ c.gen \in Gens
    /\ \A c \in MaybeCred : Managed(c) => c # None /\ c.acc \in CxAccounts
    /\ \A c \in MaybeCred : [was |-> c] \in [was : MaybeCred]
  BY Parameters DEF MaybeCred, Cred, Managed

\* The locals keep their types when they are set.
LEMMA Locals ==
    /\ NoGot \in GotType /\ NoGot.raw = None /\ NoGot.want = None /\ NoGot.lease = "none"
    /\ \A g \in GotType :
         /\ g.raw \in MaybeCred /\ g.want \in MaybeCred /\ g.seen \in Gens \cup {0}
         /\ g.lease \in LeaseStates
BY Parameters, Credentials DEF NoGot, GotType, LeaseStates

\* The login that is wanted.
LEMMA WantSet ==
    \A g \in GotType, c \in MaybeCred : \A h :
        h = [g EXCEPT !.want = c] =>
            /\ h \in GotType /\ h.want = c
            /\ h.raw = g.raw /\ h.seen = g.seen /\ h.lease = g.lease /\ h.failed = g.failed
BY DEF GotType

\* What the lease is, since it was got.
LEMMA LeaseSet ==
    \A g \in GotType, l \in LeaseStates : \A h :
        h = [g EXCEPT !.lease = l] =>
            /\ h \in GotType /\ h.lease = l
            /\ h.raw = g.raw /\ h.seen = g.seen /\ h.want = g.want /\ h.failed = g.failed
BY DEF GotType

\* A push that failed.
LEMMA FailedSet ==
    \A g \in GotType : \A h :
        h = [g EXCEPT !.failed = TRUE] =>
            /\ h \in GotType /\ h.failed
            /\ h.raw = g.raw /\ h.seen = g.seen /\ h.want = g.want /\ h.lease = g.lease
BY DEF GotType

\* A row keeps its type when a column is set.
LEMMA Columns ==
    /\ \A r \in RowType : r.gen \in Gens
    /\ \A r \in RowType, g \in Gens : \A q :
         q = [r EXCEPT !.gen = g] => q \in RowType /\ q.gen = g
    /\ \A r \in RowType, k \in BOOLEAN : \A q :
         q = [r EXCEPT !.ok = k] => q \in RowType /\ q.gen = r.gen
    /\ \A r \in RowType, p \in {"none", "me", "any"} : \A q :
         q = [r EXCEPT !.pin = p] => q \in RowType /\ q.gen = r.gen
BY DEF RowType

\* The invariant is about every variable, and holds at first.
LEMMA InitIInv == Init => ManagerIInv
<1> SUFFICES ASSUME Init PROVE ManagerIInv
  OBVIOUS
<1> USE Parameters, Credentials
<1>1. VaultOK /\ DiskOK /\ RunOK
  BY DEF Init, VaultOK, DiskOK, RunOK, RowType, PcStates
<1>2. MemOK
  BY Locals DEF Init, MemOK, LeaseStates
<1>3. TokensOK
  BY DEF Init, TokensOK
<1>4. LeaseOK /\ SyncOK
  BY Locals DEF Init, LeaseOK, SyncOK, Looked
<1>5. KnownOK
  BY Locals DEF Init, KnownOK, Known
<1>6. NativeOK
  BY DEF Init, NativeOK, Stored, FoundIn, RunOK
<1> QED BY <1>1, <1>2, <1>3, <1>4, <1>5, <1>6 DEF ManagerIInv

-----------------------------------------------------------------------------
(* The reconcile. *)

\* What a reconcile read stays true to while rows and expired generations only rise.
LEMMA RowsRise ==
    ASSUME ManagerIInv, VaultOK', TokensOK',
           \A a \in CxAccounts : row[a].gen <= row'[a].gen /\ lapsed[a] <= lapsed'[a],
           got' \in GotType, pc' \in PcStates,
           got'.raw = got.raw, got'.seen = got.seen, got'.failed = got.failed,
           pc' = "sync" => pc = "sync",
           pc = "sync" /\ pc' # "sync" => pc' = "idle",
           pc' = "idle" => got' = NoGot
    PROVE  SyncOK'
<1>1. /\ \A a \in CxAccounts : row[a].gen \in Nat /\ row'[a].gen \in Nat
      /\ \A a \in CxAccounts : lapsed[a] \in Nat /\ lapsed'[a] \in Nat
      /\ got.seen \in Nat /\ (Looked => got.raw.gen \in Nat)
  <2>1. /\ row \in [CxAccounts -> RowType] /\ row' \in [CxAccounts -> RowType]
        /\ lapsed \in [CxAccounts -> Gens \cup {0}] /\ lapsed' \in [CxAccounts -> Gens \cup {0}]
        /\ got \in GotType
    BY DEF ManagerIInv, VaultOK, TokensOK, MemOK
  <2>2. \A a \in CxAccounts : row[a].gen \in Nat /\ row'[a].gen \in Nat
    BY <2>1, Parameters, Columns
  <2>3. got.seen \in Nat /\ (Looked => got.raw.gen \in Nat)
    BY <2>1, Parameters, Credentials, Locals DEF Looked
  <2>4. \A a \in CxAccounts : lapsed[a] \in Nat /\ lapsed'[a] \in Nat
    <3>1. \A x \in Gens \cup {0} : x \in Nat
      BY Parameters
    <3> QED BY <2>1, <3>1
  <2> QED BY <2>2, <2>3, <2>4
<1>2. CASE pc' = "idle"
  BY <1>2, Locals DEF SyncOK, Looked
<1>3. CASE pc' # "idle"
  BY <1>1, <1>3 DEF ManagerIInv, SyncOK, Looked
<1> QED BY <1>2, <1>3

\* What the CLI finds is one of its two places.
LEMMA StoredIsThere ==
    ManagerIInv => Stored \in {ring, file} /\ Stored \in MaybeCred /\ Known(Stored)
  BY DEF ManagerIInv, DiskOK, KnownOK, Stored

\* It looks, and reads the row of the account it finds.
LEMMA SyncLoadStep ==
    ASSUME ManagerIInv, SyncLoad
    PROVE  ManagerIInv'
<1> USE Parameters DEF ManagerIInv, SyncLoad, fixed, vault, tokens, disk
<1>1. VaultOK' /\ DiskOK' /\ RunOK' /\ TokensOK' /\ NativeOK'
  BY DEF VaultOK, DiskOK, RunOK, PcStates, TokensOK, NativeOK, Stored, FoundIn
<1>2. /\ got'.raw \in {Stored, None} /\ got'.want = None /\ got'.lease = "none"
      /\ Looked' => Managed(Stored) /\ got'.raw = Stored /\ got'.seen = row[Stored.acc].gen
  BY DEF Looked, Managed
<1>3. got' \in GotType
  <2>1. /\ (IF Readable THEN Stored ELSE None) \in MaybeCred
        /\ (IF Readable /\ Managed(Stored) THEN row[Stored.acc].gen ELSE 0) \in Gens \cup {0}
    BY StoredIsThere, Credentials, Columns DEF VaultOK
  <2> QED BY <2>1, Credentials DEF GotType, LeaseStates
<1>4. MemOK' /\ LeaseOK' /\ KnownOK'
  BY <1>2, <1>3, StoredIsThere DEF MemOK, LeaseOK, KnownOK, Known
<1>5. SyncOK'
  <2>1. Looked' => row[got'.raw.acc].gen \in Nat
    BY <1>2, StoredIsThere, Credentials, Columns DEF VaultOK
  <2> QED BY <1>2, <2>1 DEF SyncOK
<1> QED BY <1>1, <1>4, <1>5

\* It pushes the token it found, unless the row or the clock is past it.
LEMMA SyncWriteStep ==
    ASSUME ManagerIInv, SyncWrite
    PROVE  ManagerIInv'
<1> USE Parameters DEF ManagerIInv, SyncWrite, fixed, tokens, disk
<1> DEFINE a == got.raw.acc
           pushes == Managed(got.raw) /\ got.raw.gen # got.seen /\ Allowed
<1>0. /\ Managed(got.raw) => got.raw # None /\ a \in CxAccounts /\ got.raw.gen \in Gens
      /\ Looked <=> Managed(got.raw)
  BY Credentials, Locals DEF MemOK, Looked, Managed
<1>1. DiskOK' /\ RunOK' /\ TokensOK' /\ NativeOK'
  BY DEF DiskOK, RunOK, PcStates, TokensOK, NativeOK, Stored, FoundIn, Happens
<1>2. /\ row' \in [CxAccounts -> RowType]
      /\ \A b \in CxAccounts : row'[b].gen = row[b].gen \/ (pushes /\ b = a /\ row' # row)
      /\ row' # row => pushes /\ row'[a].gen = got.raw.gen /\ got' = got
  <2>1. CASE row' = row
    BY <2>1 DEF VaultOK
  <2>2. CASE pushes /\ row' = [row EXCEPT ![a].gen = got.raw.gen] /\ got' = got /\ row' # row
    <3>1. PICK q : q = [row[a] EXCEPT !.gen = got.raw.gen]
      OBVIOUS
    <3>2. row' = [row EXCEPT ![a] = q]
      BY <2>2, <1>0, <3>1 DEF VaultOK
    <3>3. q \in RowType /\ q.gen = got.raw.gen
      <4>1. row[a] \in RowType /\ got.raw.gen \in Gens
        BY <2>2, <1>0 DEF VaultOK
      <4> QED BY <3>1, <4>1, Columns
    <3> QED BY <1>0, <2>2, <3>2, <3>3 DEF VaultOK
  <2> QED BY <2>1, <2>2
<1>3. VaultOK'
  BY <1>2 DEF VaultOK
<1>4. /\ got' \in GotType /\ got'.raw = got.raw /\ got'.seen = got.seen
      /\ got'.want = got.want /\ got'.lease = got.lease
      /\ got' = got \/ got'.failed
  <2>1. got \in GotType /\ got' \in {got, [got EXCEPT !.failed = TRUE]}
    BY DEF MemOK
  <2> QED BY <2>1, FailedSet
<1>5. MemOK' /\ LeaseOK'
  BY <1>4 DEF MemOK, LeaseOK
<1>6. KnownOK'
  BY <1>0, <1>2, <1>4 DEF KnownOK, Known
<1>7. SyncOK'
  <2>1. \A b \in CxAccounts : row[b].gen \in Nat /\ row'[b].gen \in Nat /\ lapsed[b] \in Nat
    <3>1. \A b \in CxAccounts : row[b].gen \in Nat /\ row'[b].gen \in Nat
      BY <1>2, Columns DEF VaultOK
    <3>2. \A b \in CxAccounts : lapsed[b] \in Nat
      BY DEF TokensOK
    <3> QED BY <3>1, <3>2
  <2>2. got.seen \in Nat
    BY Locals DEF MemOK
  <2>3. CASE row' # row
    BY <1>0, <1>2, <2>1, <2>2, <2>3 DEF SyncOK, Looked, Allowed
  <2>4. CASE row' = row
    <3>1. pushes => got'.failed \/ row[a].gen = got.raw.gen
      <4>1. CASE got'.failed
        BY <4>1
      <4>2. CASE pushes /\ row' = [row EXCEPT ![a].gen = got.raw.gen]
        BY <1>0, <2>4, <4>2 DEF VaultOK, RowType
      <4>3. got' = [got EXCEPT !.failed = TRUE] => got'.failed
        BY FailedSet DEF MemOK
      <4> QED BY <4>1, <4>2, <4>3
    <3> QED BY <1>0, <1>4, <2>1, <2>2, <2>4, <3>1 DEF SyncOK, Looked, Allowed
  <2> QED BY <2>3, <2>4
<1> QED BY <1>1, <1>3, <1>5, <1>6, <1>7

\* What is left when a reconcile ends, or goes on with the rows as they are.
LEMMA RowsStay ==
    ASSUME ManagerIInv, VaultOK', TokensOK', UNCHANGED <<row, lapsed>>,
           got' \in GotType, pc' \in PcStates, pc # "sync", pc' # "sync",
           \/ pc' = "idle" /\ got' = NoGot
           \/ pc' # "idle" /\ got'.raw = got.raw /\ got'.seen = got.seen
              /\ got'.failed = got.failed
    PROVE  SyncOK'
<1>1. CASE pc' = "idle" /\ got' = NoGot
  BY <1>1, Locals DEF SyncOK, Looked
<1>2. CASE pc' # "idle" /\ got'.raw = got.raw /\ got'.seen = got.seen /\ got'.failed = got.failed
  <2>1. \A a \in CxAccounts : row[a].gen \in Nat /\ lapsed[a] \in Nat
    <3>1. \A x \in Gens \cup {0} : x \in Nat
      BY Parameters
    <3> QED BY <3>1, Columns DEF ManagerIInv, VaultOK, TokensOK
  <2>2. \A a \in CxAccounts : row[a].gen <= row'[a].gen /\ lapsed[a] <= lapsed'[a]
    BY <2>1
  <2> QED BY <1>2, <2>2, RowsRise
<1> QED BY <1>1, <1>2

\* An event may have happened, and no token was issued.
LEMMA TokensStay ==
    ASSUME ManagerIInv, UNCHANGED tokens, login' = login,
           events' \in {events, events + 1}, events' \in 0 .. CxMaxEvents
    PROVE  TokensOK'
<1>0. TokensOK /\ CxMaxEvents \in Nat
  BY Parameters DEF ManagerIInv
<1>1. /\ events \in Nat /\ events' \in Nat /\ events <= events'
      /\ login \in Nat /\ \A a \in CxAccounts : issued[a] \in Nat
  <2>1. events \in Nat /\ login \in Nat
    BY <1>0, Parameters DEF TokensOK
  <2>2. \A a \in CxAccounts : issued[a] \in Nat
    BY <1>0, Parameters DEF TokensOK
  <2> QED BY <1>0, <2>1, <2>2
<1>2. login <= events + 1 /\ \A a \in CxAccounts : issued[a] <= events + 1
  BY <1>0 DEF TokensOK
<1>3. login <= events' + 1 /\ \A a \in CxAccounts : issued[a] <= events' + 1
  <2>1. \A x, e, f \in Nat : e <= f /\ x <= e + 1 => x <= f + 1
    OBVIOUS
  <2> QED BY <1>1, <1>2, <2>1
<1> QED BY <1>0, <1>3 DEF TokensOK, tokens

\* It parks, wants an account of the pool, or finds that there is none.  A lease it
\* takes away is another device's.
LEMMA ChooseStep ==
    ASSUME ManagerIInv, Choose
    PROVE  ManagerIInv'
<1> USE Parameters DEF ManagerIInv
<1>0. /\ UNCHANGED <<fixed, row, auto, tokens, disk, ringUp, up, cur, lease, idle, login, excused>>
      /\ events' = events /\ pc = "choose" /\ got \in GotType
  BY DEF Choose, MemOK
<1>1. Sticky \subseteq CxAccounts
  <2>1. StickyUnpinned \subseteq CxAccounts
    <3>1. Current \in CxAccounts \cup {0}
      BY StoredIsThere, Credentials DEF Current, LocalCur, MemOK
    <3> QED BY <3>1 DEF StickyUnpinned
  <2> DEFINE pinned == {a \in CxAccounts : Eligible(a) /\ PinnedForMe(a)}
  <2>2. pinned # {} => Min(pinned) \in pinned
    BY MinIsMember
  <2> QED BY <2>1, <2>2 DEF Sticky
<1>2. \/ pc' = "idle" /\ got' = NoGot /\ holder' = holder
      \/ pc' = "restore" /\ got' = got /\ holder' = holder
      \/ \E a \in CxAccounts :
            /\ got' = [got EXCEPT !.want = Cred(a, row[a].gen)] /\ pc' \in {"load", "lease"}
            /\ \/ holder' = holder
               \/ holder[a] = "other" /\ holder' = [holder EXCEPT ![a] = "none"]
  <2>1. CASE \E a \in Sticky \cup Free : Take(a) /\ UNCHANGED holder
    BY <1>1, <2>1 DEF Take, Free
  <2>2. CASE Free = {} /\ \E a \in CxAccounts :
               Eligible(a) /\ Take(a) /\ holder' = [holder EXCEPT ![a] = "none"]
    BY <2>2 DEF Take, Free, HeldByOther
  <2>3. CASE End /\ UNCHANGED holder
    BY <2>3 DEF End
  <2>4. CASE NoneLeft /\ UNCHANGED holder
    BY <2>4 DEF NoneLeft
  <2> QED BY <2>1, <2>2, <2>3, <2>4 DEF Choose
<1>3. /\ got' \in GotType /\ got'.lease \in {got.lease, "none"}
      /\ \/ pc' = "idle" /\ got' = NoGot
         \/ pc' # "idle" /\ got'.raw = got.raw /\ got'.seen = got.seen /\ got'.failed = got.failed
      /\ pc' \in {"idle", "restore", "load", "lease"}
  <2>1. \A a \in CxAccounts : Cred(a, row[a].gen) \in MaybeCred
    BY Credentials, Columns DEF VaultOK
  <2> QED BY <1>0, <1>2, <2>1, Locals, WantSet
<1>4. VaultOK'
  BY <1>0, <1>2 DEF VaultOK
<1>5. DiskOK' /\ RunOK' /\ TokensOK' /\ NativeOK' /\ MemOK'
  BY <1>0, <1>3 DEF DiskOK, RunOK, PcStates, TokensOK, NativeOK, Stored, FoundIn, MemOK,
                    fixed, tokens, disk
<1>6. LeaseOK' /\ KnownOK'
  <2>1. CASE got' \in {NoGot, got} /\ holder' = holder /\ pc' \in {"idle", "restore"}
    BY <1>0, <2>1, Locals DEF LeaseOK, KnownOK, Known, disk, tokens
  <2>2. ASSUME NEW a \in CxAccounts,
               got' = [got EXCEPT !.want = Cred(a, row[a].gen)],
               \/ holder' = holder
               \/ holder[a] = "other" /\ holder' = [holder EXCEPT ![a] = "none"]
        PROVE  LeaseOK' /\ KnownOK'
    <3>1. /\ Cred(a, row[a].gen) \in MaybeCred /\ Cred(a, row[a].gen) # None
          /\ Cred(a, row[a].gen).acc = a /\ Cred(a, row[a].gen).gen = row[a].gen
      BY Credentials, Columns DEF VaultOK
    <3>2. /\ got'.want = Cred(a, row[a].gen) /\ got'.raw = got.raw /\ got'.lease = got.lease
      BY <1>0, <2>2, <3>1, WantSet
    <3>3. \A b \in CxAccounts : holder[b] = "me" => holder'[b] = "me"
      BY <2>2 DEF VaultOK
    <3>4. got.lease # "live"
      BY <1>0 DEF LeaseOK
    <3> QED BY <1>0, <3>1, <3>2, <3>3, <3>4 DEF LeaseOK, KnownOK, Known, disk, tokens
  <2> QED BY <1>2, <2>1, <2>2
<1>7. SyncOK'
  BY <1>0, <1>3, <1>4, <1>5, RowsStay DEF tokens, PcStates
<1> QED BY <1>4, <1>5, <1>6, <1>7

\* The lease is renewed, parked, lost or granted.
LEMMA EnsureLeaseStep ==
    ASSUME ManagerIInv, EnsureLease
    PROVE  ManagerIInv'
<1> USE Parameters DEF ManagerIInv
<1> DEFINE a == got.want.acc
<1>0. /\ UNCHANGED <<fixed, row, auto, tokens, disk, ringUp, up, idle, events, login, excused>>
      /\ pc = "lease" /\ got \in GotType /\ got.want # None /\ a \in CxAccounts
      /\ "live" \in LeaseStates
  BY DEF EnsureLease, MemOK, LeaseOK, LeaseStates
<1>1. \/ /\ pc' = "idle" /\ got' = NoGot /\ holder' = holder
         /\ lease' = "none" /\ cur' \in {cur, 0}
      \/ /\ pc' = "load" /\ got' = [got EXCEPT !.lease = "live"]
         /\ holder' = holder /\ holder[a] = "me" /\ cur' = cur /\ lease' = lease
      \/ /\ pc' = "load" /\ got' = [got EXCEPT !.lease = "live"] /\ cur' = cur
         /\ holder' = [b \in CxAccounts |-> IF b = a THEN "me"
                                            ELSE IF holder[b] = "me" THEN "none" ELSE holder[b]]
         /\ lease' = (IF lease = "live" /\ cur # a THEN "gone" ELSE lease)
  BY <1>0 DEF EnsureLease, Renews, End, Locked, Granted, LeaseOK
<1>2. /\ got' \in GotType
      /\ \/ pc' = "idle" /\ got' = NoGot
         \/ /\ pc' = "load" /\ got'.raw = got.raw /\ got'.seen = got.seen
            /\ got'.failed = got.failed /\ got'.want = got.want
  BY <1>0, <1>1, Locals, LeaseSet
<1>3. VaultOK'
  BY <1>0, <1>1 DEF VaultOK
<1>4. /\ DiskOK' /\ RunOK' /\ TokensOK' /\ NativeOK' /\ MemOK' /\ KnownOK'
  BY <1>0, <1>1, <1>2, Locals
     DEF DiskOK, RunOK, PcStates, TokensOK, NativeOK, Stored, FoundIn, MemOK, LeaseStates,
         KnownOK, Known, fixed, tokens, disk
<1>5. LeaseOK'
  BY <1>0, <1>1, <1>2, Locals DEF LeaseOK, VaultOK
<1>6. SyncOK'
  BY <1>0, <1>2, <1>3, <1>4, RowsStay DEF tokens, PcStates
<1> QED BY <1>3, <1>4, <1>5, <1>6

\* The login that is there is backed up before it is replaced.
LEMMA LoadStep ==
    ASSUME ManagerIInv, Load
    PROVE  ManagerIInv'
<1> USE Parameters DEF ManagerIInv
<1>0. /\ UNCHANGED <<fixed, vault, tokens, ring, file, ringUp, up, idle, events, login, excused>>
      /\ pc = "load" /\ got \in GotType /\ got.want # None /\ got.want.acc \in CxAccounts
  BY DEF Load, MemOK, LeaseOK
<1>1. \/ /\ pc' = "idle" /\ got' = NoGot /\ backup' = backup
         /\ \/ UNCHANGED <<cur, lease>>
            \/ cur' = got.want.acc /\ lease' = got.lease
      \/ pc' = "save" /\ got' = got /\ UNCHANGED <<cur, lease>>
         /\ backup' = IF backup = None THEN [was |-> Stored] ELSE backup
  BY DEF Load, End, Arrive, Backup
<1>2. VaultOK' /\ RunOK' /\ TokensOK'
  BY <1>0, <1>1 DEF VaultOK, RunOK, PcStates, TokensOK, fixed, vault, tokens
<1>3. backup' # backup => pc' = "save" /\ backup = None /\ backup' = [was |-> Stored]
  BY <1>1
<1>4. DiskOK' /\ (pc' = "save" => backup' # None)
  <2>1. [was |-> Stored] \in [was : MaybeCred]
    BY StoredIsThere, Credentials
  <2> QED BY <1>0, <1>1, <2>1 DEF DiskOK
<1>5. MemOK' /\ LeaseOK'
  BY <1>0, <1>1, Locals DEF MemOK, LeaseOK, vault
<1>6. KnownOK'
  BY <1>0, <1>1, <1>3, Locals, StoredIsThere DEF KnownOK, Known, vault, tokens
<1>7. SyncOK'
  BY <1>0, <1>1, <1>2, Locals, RowsStay DEF vault, tokens, PcStates
<1>8. NativeOK'
  BY <1>0, <1>1, <1>3, <1>4 DEF NativeOK, Stored, FoundIn, fixed
<1> QED BY <1>2, <1>4, <1>5, <1>6, <1>7, <1>8

\* An account of the pool replaces the login.
LEMMA SaveWantStep ==
    ASSUME ManagerIInv, SaveWant
    PROVE  ManagerIInv'
<1> USE Parameters DEF ManagerIInv
<1>0. /\ UNCHANGED <<fixed, vault, tokens, backup, ringUp, up, cur, lease, idle, login, excused>>
      /\ pc = "save" /\ got \in GotType /\ got.want \in MaybeCred
      /\ events' \in {events, events + 1} /\ events' \in 0 .. CxMaxEvents
  BY Locals DEF SaveWant, MemOK, TokensOK, Happens
<1>1. \/ pc' = "idle" /\ got' = NoGot /\ UNCHANGED <<ring, file>>
      \/ /\ pc' = "mark" /\ got' = got
         /\ ring' \in {ring, got.want} /\ file' \in {file, got.want, None}
  BY DEF SaveWant, End, Save
<1>2. VaultOK' /\ RunOK' /\ DiskOK'
  BY <1>0, <1>1, Credentials DEF VaultOK, RunOK, PcStates, DiskOK, fixed, vault
<1>3. TokensOK'
  BY <1>0, TokensStay
<1>4. MemOK' /\ LeaseOK' /\ KnownOK'
  BY <1>0, <1>1, Locals DEF MemOK, LeaseOK, KnownOK, Known, vault, tokens
<1>5. SyncOK'
  BY <1>0, <1>1, <1>2, <1>3, Locals, RowsStay DEF vault, tokens, PcStates
<1>6. NativeOK'
  BY <1>0, <1>1 DEF NativeOK, fixed
<1> QED BY <1>2, <1>3, <1>4, <1>5, <1>6

\* The pin is consumed, and the account is the one in use.
LEMMA MarkUsedStep ==
    ASSUME ManagerIInv, MarkUsed
    PROVE  ManagerIInv'
<1> USE Parameters DEF ManagerIInv
<1> DEFINE a == got.want.acc
<1>0. /\ UNCHANGED <<fixed, auto, holder, tokens, disk, ringUp, up, idle, login, excused>>
      /\ pc = "mark" /\ got \in GotType /\ got.want # None /\ a \in CxAccounts
      /\ pc' = "idle" /\ got' = NoGot
      /\ \/ UNCHANGED <<cur, lease>>
         \/ cur' = a /\ lease' = got.lease
  BY DEF MarkUsed, End, Arrive, MemOK, LeaseOK
<1>1. events' \in {events, events + 1} /\ events' \in 0 .. CxMaxEvents
  BY DEF MarkUsed, Happens, TokensOK
<1>2. /\ row' \in [CxAccounts -> RowType]
      /\ \A b \in CxAccounts : row'[b].gen = row[b].gen
  <2>1. CASE row' = row
    BY <2>1 DEF VaultOK
  <2>2. CASE row' = [row EXCEPT ![a].pin = "none"]
    <3>1. PICK q : q = [row[a] EXCEPT !.pin = "none"]
      OBVIOUS
    <3>2. row' = [row EXCEPT ![a] = q]
      BY <2>2, <1>0, <3>1 DEF VaultOK
    <3>3. q \in RowType /\ q.gen = row[a].gen
      <4>1. row[a] \in RowType
        BY <1>0 DEF VaultOK
      <4> QED BY <3>1, <4>1, Columns
    <3> QED BY <1>0, <3>2, <3>3 DEF VaultOK
  <2> QED BY <2>1, <2>2 DEF MarkUsed
<1>3. VaultOK' /\ RunOK' /\ DiskOK'
  BY <1>0, <1>2 DEF VaultOK, RunOK, PcStates, DiskOK, fixed, disk
<1>4. TokensOK'
  BY <1>0, <1>1, TokensStay
<1>5. MemOK' /\ LeaseOK' /\ KnownOK'
  BY <1>0, <1>2, Locals DEF MemOK, LeaseOK, KnownOK, Known, disk, tokens
<1>6. SyncOK'
  BY <1>0, Locals DEF SyncOK, Looked
<1>7. NativeOK'
  BY <1>0 DEF NativeOK, Stored, FoundIn, fixed, disk
<1> QED BY <1>3, <1>4, <1>5, <1>6, <1>7

\* The login comes back: with the backup still there, the CLI finds it.
LEMMA RestoreStep ==
    ASSUME ManagerIInv, Restore
    PROVE  ManagerIInv'
<1> USE Parameters DEF ManagerIInv
<1>0. /\ UNCHANGED <<fixed, vault, tokens, backup, ringUp, cur, lease, idle, login, excused>>
      /\ pc = "restore" /\ got \in GotType /\ up' \in {up, "off"}
      /\ backup # None => backup.was \in MaybeCred
      /\ "idle" \in PcStates /\ "unback" \in PcStates /\ "release" \in PcStates
  BY DEF Restore, Off, MemOK, DiskOK, PcStates
<1>1. events' \in {events, events + 1} /\ events' \in 0 .. CxMaxEvents
  BY DEF Restore, Happens, TokensOK
<1>2. \/ pc' = "idle" /\ got' = NoGot /\ UNCHANGED <<ring, file>>
      \/ pc' = "release" /\ got' = got /\ UNCHANGED <<ring, file>>
      \/ pc' = "unback" /\ got' = got /\ backup # None /\ PutBack
  BY DEF Restore, End
<1>3. PutBack => ring' \in {ring, backup.was, None} /\ file' \in {file, backup.was, None}
  BY DEF PutBack, Save, Delete
<1>4. VaultOK' /\ RunOK' /\ DiskOK'
  BY <1>0, <1>2, <1>3, Credentials DEF VaultOK, RunOK, DiskOK, fixed, vault
<1>5. TokensOK'
  BY <1>0, <1>1, TokensStay
<1>6. MemOK' /\ LeaseOK'
  BY <1>0, <1>2, Locals DEF MemOK, LeaseOK, vault
<1>7. KnownOK'
  BY <1>0, <1>2, <1>3, Locals DEF KnownOK, Known, vault, tokens
<1>8. SyncOK'
  BY <1>0, <1>2, <1>4, <1>5, Locals, RowsStay DEF vault, tokens
<1>9. NativeOK'
  <2>1. CASE pc' # "unback"
    BY <1>0, <1>2, <2>1 DEF NativeOK, Stored, FoundIn, fixed
  <2>2. CASE pc' = "unback" /\ excused = {}
    <3>1. /\ ringUp /\ ringUp' /\ backup # None /\ backup.was = Cred(0, login)
          /\ place' = place /\ place \in {"file", "keyring", "auto"}
      BY <1>0, <1>2, <2>2 DEF NativeOK, RunOK, fixed
    <3>2. Cred(0, login) # None
      BY Credentials DEF TokensOK
    <3>3. Save(Cred(0, login))
      BY <1>2, <2>2, <3>1, <3>2 DEF PutBack
    <3>4. Stored' = Cred(0, login)
      BY <3>1, <3>2, <3>3 DEF Save, Stored, FoundIn
    <3> QED BY <1>0, <2>2, <3>1, <3>4 DEF NativeOK
  <2> QED BY <1>0, <2>1, <2>2 DEF NativeOK
<1> QED BY <1>4, <1>5, <1>6, <1>7, <1>8, <1>9

\* Then the backup goes.
LEMMA RemoveBackupStep ==
    ASSUME ManagerIInv, RemoveBackup
    PROVE  ManagerIInv'
<1> USE Parameters DEF ManagerIInv, RemoveBackup, fixed, vault, tokens, mem
<1>1. VaultOK' /\ DiskOK' /\ MemOK' /\ RunOK' /\ TokensOK'
  BY DEF VaultOK, DiskOK, MemOK, RunOK, PcStates, TokensOK
<1>2. LeaseOK' /\ KnownOK'
  BY DEF LeaseOK, KnownOK, Known
<1>3. SyncOK'
  BY DEF SyncOK, Looked
<1>4. NativeOK'
  BY DEF NativeOK, Stored, FoundIn
<1> QED BY <1>1, <1>2, <1>3, <1>4

\* The lease is given back, and with it the account.
LEMMA ReleaseStep ==
    ASSUME ManagerIInv, Release
    PROVE  ManagerIInv'
<1> USE Parameters DEF ManagerIInv, Release, End, fixed, tokens, disk
<1>1. VaultOK' /\ DiskOK' /\ RunOK'
  BY DEF VaultOK, DiskOK, RunOK, PcStates, Off
<1>2. TokensOK'
  BY TokensStay DEF Happens, TokensOK
<1>3. MemOK' /\ LeaseOK' /\ KnownOK'
  BY Locals DEF MemOK, LeaseStates, LeaseOK, KnownOK, Known
<1>4. SyncOK'
  BY Locals DEF SyncOK, Looked
<1>5. NativeOK'
  BY DEF NativeOK, Stored, FoundIn
<1> QED BY <1>1, <1>2, <1>3, <1>4, <1>5

-----------------------------------------------------------------------------
(* Around the manager. *)

\* A shutdown, a crash and a restart forget what the reconcile had in hand.
LEMMA ProcessSteps ==
    ASSUME ManagerIInv, Quit \/ Crash \/ Start
    PROVE  ManagerIInv'
<1> USE Parameters DEF ManagerIInv
<1>0. /\ UNCHANGED <<fixed, vault, tokens, disk, ringUp, idle, login, excused>>
      /\ \/ UNCHANGED <<cur, lease, got>> /\ pc = "idle" /\ pc' \in {"restore", "release"}
         \/ cur' = 0 /\ lease' = "none" /\ got' = NoGot /\ pc' = "idle"
         \/ cur' = 0 /\ lease' = "none" /\ UNCHANGED <<got, pc>>
      /\ up' \in {"run", "quit", "off"}
  BY DEF Quit, Crash, Start, End, mem
<1>1. events' \in {events, events + 1} /\ events' \in 0 .. CxMaxEvents
  BY DEF Quit, Crash, Start, Happens, TokensOK
<1>2. TokensOK'
  BY <1>0, <1>1, TokensStay
<1>3. VaultOK' /\ DiskOK' /\ RunOK'
  BY <1>0 DEF VaultOK, DiskOK, RunOK, PcStates, fixed, vault, disk
<1>4. MemOK' /\ LeaseOK' /\ KnownOK'
  BY <1>0, Locals DEF MemOK, LeaseStates, LeaseOK, KnownOK, Known, vault, disk, tokens
<1>5. SyncOK'
  BY <1>0, Locals DEF SyncOK, Looked, vault, tokens
<1>6. NativeOK'
  BY <1>0 DEF NativeOK, Stored, FoundIn, fixed, disk
<1> QED BY <1>2, <1>3, <1>4, <1>5, <1>6

\* Settings and activity.
LEMMA SettingSteps ==
    ASSUME ManagerIInv, ToggleAuto \/ ActivityTurns \/ KeyringTurns
    PROVE  ManagerIInv'
<1> USE Parameters DEF ManagerIInv
<1>0. /\ UNCHANGED <<fixed, row, holder, tokens, disk, up, pc, mem, login>>
      /\ auto' \in BOOLEAN /\ idle' \in BOOLEAN /\ ringUp' \in BOOLEAN
      /\ \/ UNCHANGED <<excused, ringUp>>
         \/ "keyring" \in excused'
  BY DEF ToggleAuto, ActivityTurns, KeyringTurns, vault, RunOK
<1>1. events' \in {events, events + 1} /\ events' \in 0 .. CxMaxEvents
  BY DEF ToggleAuto, ActivityTurns, KeyringTurns, Happens, TokensOK
<1>2. TokensOK'
  BY <1>0, <1>1, TokensStay
<1>3. VaultOK' /\ DiskOK' /\ RunOK'
  BY <1>0 DEF VaultOK, DiskOK, RunOK, fixed, disk
<1>4. MemOK' /\ LeaseOK' /\ KnownOK' /\ SyncOK'
  BY <1>0 DEF MemOK, LeaseOK, KnownOK, Known, SyncOK, Looked, disk, tokens, mem
<1>5. NativeOK'
  <2>1. CASE UNCHANGED <<excused, ringUp>>
    BY <1>0, <2>1 DEF NativeOK, Stored, FoundIn, fixed, disk
  <2>2. CASE "keyring" \in excused'
    BY <2>2 DEF NativeOK
  <2> QED BY <1>0, <2>1, <2>2
<1> QED BY <1>2, <1>3, <1>4, <1>5

\* The CLI rotates a token of the pool that it found.
LEMMA CliRotateStep ==
    ASSUME ManagerIInv, CliRotate
    PROVE  ManagerIInv'
<1> USE Parameters DEF ManagerIInv
<1> DEFINE a == Stored.acc
           c == Cred(a, Stored.gen + 1)
<1>0. /\ UNCHANGED <<fixed, vault, lapsed, backup, ringUp, up, pc, mem, idle, login, excused>>
      /\ Managed(Stored) /\ Stored.gen = issued[a] /\ events' = events + 1 /\ events < CxMaxEvents
      /\ issued' = [issued EXCEPT ![a] = c.gen]
      /\ \/ ring' = c /\ UNCHANGED file
         \/ file' = c /\ UNCHANGED ring
  BY DEF CliRotate, Happens, Cred
<1>1. a \in CxAccounts /\ Stored.gen \in Gens /\ Stored # None
  BY <1>0, StoredIsThere, Credentials
<1>2. /\ issued[a] \in Nat /\ events \in Nat /\ CxMaxEvents \in Nat /\ issued[a] <= events + 1
      /\ login \in Nat /\ login <= events + 1
      /\ \A b \in CxAccounts : issued[b] \in Nat /\ issued[b] <= events + 1
  <2>1. TokensOK
    OBVIOUS
  <2>2. login \in Nat /\ \A b \in CxAccounts : issued[b] \in Nat /\ issued[b] <= events + 1
    BY <2>1, Parameters DEF TokensOK
  <2>3. events \in Nat /\ CxMaxEvents \in Nat /\ login <= events + 1
    BY <2>1, Parameters DEF TokensOK
  <2> QED BY <1>1, <2>2, <2>3
<1>3. issued[a] + 1 \in Gens /\ events' \in 0 .. CxMaxEvents
  BY <1>0, <1>2 DEF Gens
<1>4. /\ c \in MaybeCred /\ c # None /\ c.acc = a /\ c.gen = issued[a] + 1
  BY <1>0, <1>1, <1>3, Credentials
<1> HIDE DEF c
<1>5. /\ issued' \in [CxAccounts -> Gens] /\ issued'[a] = issued[a] + 1
      /\ \A b \in CxAccounts : issued'[b] # issued[b] => b = a
      /\ \A b \in CxAccounts : issued[b] <= issued'[b] /\ issued'[b] <= events' + 1
  BY <1>0, <1>1, <1>2, <1>3, <1>4 DEF TokensOK
<1>6. TokensOK'
  BY <1>0, <1>2, <1>3, <1>5 DEF TokensOK
<1>7. VaultOK' /\ DiskOK' /\ RunOK' /\ MemOK' /\ LeaseOK' /\ SyncOK'
  BY <1>0, <1>4 DEF VaultOK, DiskOK, RunOK, MemOK, LeaseOK, SyncOK, Looked, fixed, vault, mem
<1>8. KnownOK'
  <2>1. ASSUME NEW x \in MaybeCred, Known(x) PROVE Known(x)'
    <3>1. x # None /\ x.acc \in CxAccounts => x.gen \in Nat
      BY Credentials
    <3> QED BY <1>2, <1>5, <2>1, <3>1 DEF Known
  <2>2. \A b \in CxAccounts : row'[b].gen <= issued'[b]
    <3>1. \A b \in CxAccounts : row[b].gen \in Nat
      BY Columns DEF VaultOK
    <3> QED BY <1>0, <1>2, <1>5, <3>1 DEF KnownOK, vault
  <2>3. c.gen <= issued'[c.acc]
    BY <1>2, <1>4, <1>5
  <2>4. /\ ring \in MaybeCred /\ file \in MaybeCred /\ got.raw \in MaybeCred
        /\ got.want \in MaybeCred /\ (backup # None => backup.was \in MaybeCred)
    BY Locals DEF DiskOK, MemOK
  <2> QED BY <1>0, <2>1, <2>2, <2>3, <2>4 DEF KnownOK, Known, mem
<1>9. NativeOK'
  <2>1. Cred(0, login).acc = 0
    BY DEF Cred
  <2>2. backup = None /\ excused = {} => FALSE
    BY <1>0, <1>1, <2>1 DEF NativeOK
  <2>3. pc = "unback" /\ excused = {} => FALSE
    BY <1>0, <1>1, <2>1 DEF NativeOK
  <2> QED BY <1>0, <2>2, <2>3 DEF NativeOK
<1> QED BY <1>6, <1>7, <1>8, <1>9

\* Columns other than the token.
LEMMA RowSteps ==
    ASSUME ManagerIInv, NEW a \in CxAccounts, Toggle(a) \/ Select(a) \/ PinForAll(a)
    PROVE  ManagerIInv'
<1> USE Parameters DEF ManagerIInv
<1>0. /\ UNCHANGED <<fixed, auto, holder, tokens, disk, ringUp, up, pc, mem, login, excused>>
      /\ idle' \in {idle, FALSE}
  BY DEF Toggle, Select, PinForAll
<1>1. events' \in {events, events + 1} /\ events' \in 0 .. CxMaxEvents
  BY DEF Toggle, Select, PinForAll, Happens, TokensOK
<1>2. TokensOK'
  BY <1>0, <1>1, TokensStay
<1>3. /\ row' \in [CxAccounts -> RowType]
      /\ \A b \in CxAccounts : row'[b].gen = row[b].gen
  <2>0. row \in [CxAccounts -> RowType]
    BY DEF VaultOK
  <2>1. CASE Toggle(a)
    <3>1. PICK q : q = [row[a] EXCEPT !.ok = ~ row[a].ok]
      OBVIOUS
    <3>2. row' = [row EXCEPT ![a] = q]
      BY <2>0, <2>1, <3>1 DEF Toggle
    <3>3. q \in RowType /\ q.gen = row[a].gen
      BY <2>0, <3>1 DEF RowType
    <3> QED BY <2>0, <3>2, <3>3
  <2>2. CASE PinForAll(a)
    <3>1. PICK q : q = [row[a] EXCEPT !.pin = "any"]
      OBVIOUS
    <3>2. row' = [row EXCEPT ![a] = q]
      BY <2>0, <2>2, <3>1 DEF PinForAll
    <3>3. q \in RowType /\ q.gen = row[a].gen
      BY <2>0, <3>1 DEF RowType
    <3> QED BY <2>0, <3>2, <3>3
  <2>3. CASE Select(a)
    <3>1. row' = [b \in CxAccounts |->
                    IF b = a THEN [row[b] EXCEPT !.pin = "me"]
                    ELSE IF row[b].pin = "me" THEN [row[b] EXCEPT !.pin = "none"] ELSE row[b]]
      BY <2>3 DEF Select
    <3>2. \A r \in RowType : \A p \in {"none", "me"} :
            [r EXCEPT !.pin = p] \in RowType /\ [r EXCEPT !.pin = p].gen = r.gen
      BY DEF RowType
    <3> QED BY <2>0, <3>1, <3>2
  <2> QED BY <2>1, <2>2, <2>3
<1>4. VaultOK' /\ DiskOK' /\ RunOK' /\ MemOK' /\ LeaseOK'
  <2>1. VaultOK'
    BY <1>0, <1>3 DEF VaultOK
  <2>2. DiskOK' /\ RunOK'
    BY <1>0 DEF DiskOK, RunOK, fixed, disk
  <2>3. MemOK' /\ LeaseOK'
    BY <1>0 DEF MemOK, LeaseOK, mem
  <2> QED BY <2>1, <2>2, <2>3
<1>5. KnownOK'
  BY <1>0, <1>3 DEF KnownOK, Known, disk, tokens, mem
<1>6. SyncOK'
  BY <1>0, <1>3 DEF SyncOK, Looked, tokens, mem
<1>7. NativeOK'
  BY <1>0 DEF NativeOK, Stored, FoundIn, fixed, disk
<1> QED BY <1>2, <1>4, <1>5, <1>6, <1>7

\* Rows and tokens that get newer together.
LEMMA TokenRises ==
    ASSUME ManagerIInv, NEW a \in CxAccounts, events < CxMaxEvents, events' = events + 1,
           UNCHANGED <<fixed, auto, holder, disk, ringUp, up, pc, mem, idle, login, excused>>,
           \/ UNCHANGED issued
           \/ issued' = [issued EXCEPT ![a] = issued[a] + 1],
           lapsed' \in [CxAccounts -> Gens \cup {0}],
           row' \in [CxAccounts -> RowType],
           \A b \in CxAccounts :
              \/ row'[b].gen = row[b].gen
              \/ b = a /\ row'[b].gen = issued[b] + 1 /\ issued'[b] = issued[b] + 1,
           \A b \in CxAccounts : lapsed[b] <= lapsed'[b]
    PROVE  ManagerIInv'
<1> USE Parameters DEF ManagerIInv
<1>1. /\ events \in Nat /\ events' \in 0 .. CxMaxEvents /\ login \in Nat /\ login <= events + 1
  BY DEF TokensOK
<1>2. \A b \in CxAccounts : issued[b] \in Nat /\ issued[b] <= events + 1 /\ row[b].gen \in Nat
  <2>1. \A b \in CxAccounts : issued[b] \in Nat /\ issued[b] <= events + 1
    BY DEF TokensOK
  <2>2. \A b \in CxAccounts : row[b].gen \in Nat
    BY Columns DEF VaultOK
  <2> QED BY <2>1, <2>2
<1>3. issued[a] + 1 \in Gens
  BY <1>1, <1>2 DEF Gens
<1>4. /\ issued' \in [CxAccounts -> Gens]
      /\ \A b \in CxAccounts : issued[b] <= issued'[b] /\ issued'[b] <= events' + 1
  BY <1>1, <1>2, <1>3 DEF TokensOK
<1>5. TokensOK'
  BY <1>1, <1>4 DEF TokensOK
<1>6. VaultOK' /\ DiskOK' /\ RunOK' /\ MemOK' /\ LeaseOK'
  BY DEF VaultOK, DiskOK, RunOK, MemOK, LeaseOK, fixed, disk, mem
<1>7. KnownOK'
  <2>1. ASSUME NEW x \in MaybeCred, Known(x) PROVE Known(x)'
    <3>1. x # None /\ x.acc \in CxAccounts => x.gen \in Nat
      BY Credentials
    <3>2. x # None /\ x.acc \in CxAccounts => issued'[x.acc] \in Nat
      BY <1>4
    <3> QED BY <1>2, <1>4, <2>1, <3>1, <3>2 DEF Known
  <2>2. \A b \in CxAccounts : row'[b].gen <= issued'[b]
    <3>1. \A b \in CxAccounts : row[b].gen <= issued[b]
      BY DEF KnownOK
    <3>2. \A b \in CxAccounts : issued'[b] \in Nat
      BY <1>4
    <3> QED BY <1>2, <1>4, <3>1, <3>2
  <2>3. /\ ring \in MaybeCred /\ file \in MaybeCred /\ got.raw \in MaybeCred
        /\ got.want \in MaybeCred /\ (backup # None => backup.was \in MaybeCred)
    BY Locals DEF DiskOK, MemOK
  <2>4. Known(ring)' /\ Known(file)' /\ Known(got.raw)' /\ Known(got.want)'
    BY <2>1, <2>3 DEF KnownOK, Known, disk, mem
  <2>5. backup' # None => Known(backup.was)'
    BY <2>1, <2>3 DEF KnownOK, Known, disk
  <2> QED BY <2>2, <2>4, <2>5 DEF KnownOK
<1>8. SyncOK'
  <2>1. \A b \in CxAccounts : row[b].gen <= row'[b].gen /\ lapsed[b] <= lapsed'[b]
    <3>1. \A b \in CxAccounts : row[b].gen <= issued[b]
      BY DEF KnownOK
    <3> QED BY <1>2, <3>1
  <2> QED BY <1>5, <1>6, <2>1, RowsRise DEF MemOK, RunOK, SyncOK, mem
<1>9. NativeOK'
  BY DEF NativeOK, Stored, FoundIn, fixed, disk
<1> QED BY <1>5, <1>6, <1>7, <1>8, <1>9

\* The vault's scheduler rotates a token, or finds that it cannot.
LEMMA VaultRotateStep ==
    ASSUME ManagerIInv, NEW a \in CxAccounts, VaultRotate(a)
    PROVE  ManagerIInv'
<1> USE Parameters DEF ManagerIInv
<1>0. /\ events < CxMaxEvents /\ events' = events + 1 /\ lapsed' = lapsed
      /\ UNCHANGED <<fixed, auto, holder, disk, ringUp, up, pc, mem, idle, login, excused>>
      /\ row \in [CxAccounts -> RowType] /\ lapsed \in [CxAccounts -> Gens \cup {0}]
      /\ \A b \in CxAccounts : lapsed[b] \in Nat /\ lapsed[b] <= lapsed'[b]
  <2>1. lapsed \in [CxAccounts -> Gens \cup {0}] /\ \A b \in CxAccounts : lapsed[b] \in Nat
    BY DEF TokensOK
  <2>2. lapsed' = lapsed /\ events < CxMaxEvents /\ events' = events + 1
    BY DEF VaultRotate, Happens
  <2>3. \A b \in CxAccounts : lapsed[b] <= lapsed'[b]
    <3>1. \A x \in Nat : x <= x
      OBVIOUS
    <3> QED BY <2>1, <2>2, <3>1
  <2> QED BY <2>1, <2>2, <2>3 DEF VaultRotate, VaultOK
<1>1. issued[a] + 1 \in Gens
  BY <1>0 DEF TokensOK, Gens
<1>2. CASE issued' = [issued EXCEPT ![a] = issued[a] + 1]
           /\ row' = [row EXCEPT ![a].gen = issued[a] + 1]
  <2>1. PICK q : q = [row[a] EXCEPT !.gen = issued[a] + 1]
    OBVIOUS
  <2>2. row' = [row EXCEPT ![a] = q]
    BY <1>0, <1>2, <2>1
  <2>3. q \in RowType /\ q.gen = issued[a] + 1 /\ issued'[a] = issued[a] + 1
    <3>1. row[a] \in RowType
      BY <1>0
    <3>2. issued'[a] = issued[a] + 1
      BY <1>2 DEF TokensOK
    <3> QED BY <1>1, <2>1, <3>1, <3>2, Columns
  <2>4. /\ row' \in [CxAccounts -> RowType] /\ row'[a].gen = issued[a] + 1
        /\ \A b \in CxAccounts : b # a => row'[b].gen = row[b].gen
    BY <1>0, <2>2, <2>3
  <2> QED BY <1>0, <1>2, <2>3, <2>4, TokenRises
<1>3. CASE row' = [row EXCEPT ![a].ok = FALSE] /\ UNCHANGED issued
  <2>1. PICK q : q = [row[a] EXCEPT !.ok = FALSE]
    OBVIOUS
  <2>2. row' = [row EXCEPT ![a] = q]
    BY <1>0, <1>3, <2>1
  <2>3. q \in RowType /\ q.gen = row[a].gen
    <3>1. row[a] \in RowType
      BY <1>0
    <3> QED BY <2>1, <3>1, Columns
  <2>4. row' \in [CxAccounts -> RowType] /\ \A b \in CxAccounts : row'[b].gen = row[b].gen
    BY <1>0, <2>2, <2>3
  <2> QED BY <1>0, <1>3, <2>4, TokenRises
<1> QED BY <1>2, <1>3 DEF VaultRotate

\* A new login is a new token.
LEMMA ReloginStep ==
    ASSUME ManagerIInv, NEW a \in CxAccounts, Relogin(a)
    PROVE  ManagerIInv'
<1> USE Parameters DEF ManagerIInv
<1>0. /\ events < CxMaxEvents /\ events' = events + 1 /\ lapsed' = lapsed
      /\ UNCHANGED <<fixed, auto, holder, disk, ringUp, up, pc, mem, idle, login, excused>>
      /\ row \in [CxAccounts -> RowType] /\ lapsed \in [CxAccounts -> Gens \cup {0}]
      /\ \A b \in CxAccounts : lapsed[b] \in Nat /\ lapsed[b] <= lapsed'[b]
  <2>1. lapsed \in [CxAccounts -> Gens \cup {0}] /\ \A b \in CxAccounts : lapsed[b] \in Nat
    BY DEF TokensOK
  <2>2. lapsed' = lapsed /\ events < CxMaxEvents /\ events' = events + 1
    BY DEF Relogin, Happens
  <2>3. \A b \in CxAccounts : lapsed[b] <= lapsed'[b]
    <3>1. \A x \in Nat : x <= x
      OBVIOUS
    <3> QED BY <2>1, <2>2, <3>1
  <2> QED BY <2>1, <2>2, <2>3 DEF Relogin, VaultOK
<1>1. issued[a] + 1 \in Gens
  BY <1>0 DEF TokensOK, Gens
<1>2. PICK q : q = [gen |-> issued[a] + 1, ok |-> TRUE, pin |-> row[a].pin]
  OBVIOUS
<1>3. q \in RowType /\ q.gen = issued[a] + 1
  <2>1. row[a].pin \in {"none", "me", "any"}
    BY <1>0 DEF RowType
  <2> QED BY <1>1, <1>2, <2>1 DEF RowType
<1>4. row' = [row EXCEPT ![a] = q] /\ issued' = [issued EXCEPT ![a] = issued[a] + 1]
  BY <1>2 DEF Relogin
<1>5. /\ row' \in [CxAccounts -> RowType] /\ row'[a].gen = issued[a] + 1
      /\ \A b \in CxAccounts : b # a => row'[b].gen = row[b].gen
      /\ issued'[a] = issued[a] + 1
  BY <1>0, <1>3, <1>4 DEF TokensOK
<1> QED BY <1>0, <1>4, <1>5, TokenRises

\* Tokens expire.
LEMMA LapseStep ==
    ASSUME ManagerIInv, NEW a \in CxAccounts, Lapse(a)
    PROVE  ManagerIInv'
<1> USE Parameters DEF ManagerIInv
<1>0. /\ events < CxMaxEvents /\ events' = events + 1 /\ UNCHANGED <<issued, row>>
      /\ UNCHANGED <<fixed, auto, holder, disk, ringUp, up, pc, mem, idle, login, excused>>
      /\ row \in [CxAccounts -> RowType]
      /\ lapsed' = [lapsed EXCEPT ![a] = issued[a]] /\ lapsed[a] < issued[a]
  BY DEF Lapse, Happens, VaultOK, vault
<1>1. /\ lapsed \in [CxAccounts -> Gens \cup {0}] /\ issued[a] \in Gens
      /\ \A b \in CxAccounts : lapsed[b] \in Nat
  BY DEF TokensOK
<1>2. /\ lapsed' \in [CxAccounts -> Gens \cup {0}]
      /\ \A b \in CxAccounts : lapsed[b] <= lapsed'[b]
  BY <1>0, <1>1
<1> QED BY <1>0, <1>2, TokenRises

\* Leases that others take, or that end.
LEMMA LeaseSteps ==
    ASSUME ManagerIInv, NEW a \in CxAccounts, OtherTakes(a) \/ OtherLeaves(a) \/ Expire(a)
    PROVE  ManagerIInv'
<1> USE Parameters DEF ManagerIInv
<1>0. /\ UNCHANGED <<fixed, auto, tokens, disk, ringUp, up, pc, cur, idle, login, excused>>
      /\ got \in GotType /\ row \in [CxAccounts -> RowType]
      /\ holder' \in [CxAccounts -> {"none", "me", "other"}]
      /\ \A b \in CxAccounts : b # a => holder'[b] = holder[b]
      /\ \/ LeaseEnds(a)
         \/ holder[a] = "other" /\ UNCHANGED <<lease, got>>
  BY DEF OtherTakes, OtherLeaves, Expire, MemOK, VaultOK, mem
<1>1. events' \in {events, events + 1} /\ events' \in 0 .. CxMaxEvents
  BY DEF OtherTakes, OtherLeaves, Expire, Happens, TokensOK
<1>2. TokensOK'
  BY <1>0, <1>1, TokensStay
<1>3. /\ row' \in [CxAccounts -> RowType]
      /\ \A b \in CxAccounts : row'[b].gen = row[b].gen
  <2>1. CASE row' = row
    BY <1>0, <2>1
  <2>2. CASE row' = [row EXCEPT ![a].pin = "none"]
    <3>1. PICK q : q = [row[a] EXCEPT !.pin = "none"]
      OBVIOUS
    <3>2. row' = [row EXCEPT ![a] = q]
      BY <1>0, <2>2, <3>1
    <3>3. q \in RowType /\ q.gen = row[a].gen
      <4>1. row[a] \in RowType
        BY <1>0
      <4> QED BY <3>1, <4>1, Columns
    <3> QED BY <1>0, <3>2, <3>3
  <2> QED BY <2>1, <2>2 DEF OtherTakes, OtherLeaves, Expire
<1>4. /\ got' \in GotType /\ got'.raw = got.raw /\ got'.seen = got.seen
      /\ got'.failed = got.failed /\ got'.want = got.want
      /\ got' # got => holder[a] = "me" /\ got.lease = "live" /\ got'.lease = "gone"
      /\ lease' # lease => lease' = "gone"
      /\ holder[a] = "me" => lease' # "live" /\ got'.lease # "live"
  <2>1. CASE UNCHANGED <<lease, got>> /\ holder[a] # "me"
    BY <1>0, <2>1
  <2>2. CASE LeaseEnds(a)
    <3>1. got' = got \/ got' = [got EXCEPT !.lease = "gone"]
      BY <2>2 DEF LeaseEnds
    <3>2. "gone" \in LeaseStates
      BY DEF LeaseStates
    <3> QED BY <1>0, <2>2, <3>1, <3>2, LeaseSet DEF LeaseEnds
  <2> QED BY <1>0, <2>1, <2>2
<1>5. VaultOK' /\ DiskOK' /\ RunOK'
  BY <1>0, <1>3 DEF VaultOK, DiskOK, RunOK, fixed, disk
<1>6. MemOK' /\ LeaseOK' /\ KnownOK'
  <2>1. MemOK'
    BY <1>0, <1>4 DEF MemOK, LeaseStates
  <2>2. LeaseOK'
    BY <1>0, <1>4 DEF LeaseOK, MemOK
  <2>3. KnownOK'
    BY <1>0, <1>3, <1>4 DEF KnownOK, Known, disk, tokens
  <2> QED BY <2>1, <2>2, <2>3
<1>7. SyncOK'
  <2>1. pc = "idle" => got' = NoGot
    BY <1>4, Locals DEF SyncOK
  <2>2. Looked' <=> Looked
    BY <1>4 DEF Looked
  <2>3. Looked => row'[got.raw.acc].gen = row[got.raw.acc].gen /\ lapsed' = lapsed
    BY <1>0, <1>3 DEF Looked, tokens
  <2> QED BY <1>0, <1>4, <2>1, <2>2, <2>3 DEF SyncOK
<1>8. NativeOK'
  BY <1>0 DEF NativeOK, Stored, FoundIn, fixed, disk
<1> QED BY <1>2, <1>5, <1>6, <1>7, <1>8

\* The user logs in: into the place where the CLI looks.
LEMMA UserLoginStep ==
    ASSUME ManagerIInv, UserLogin
    PROVE  ManagerIInv'
<1> USE Parameters DEF ManagerIInv
<1> DEFINE c == Cred(0, login + 1)
<1>0. /\ UNCHANGED <<fixed, vault, tokens, backup, ringUp, up, pc, mem, idle>>
      /\ events < CxMaxEvents /\ events' = events + 1 /\ login' = login + 1 /\ Save(c)
      /\ excused' = excused \cup (IF backup # None \/ pc # "idle" THEN {"login"} ELSE {})
  BY DEF UserLogin, Happens
<1>1. /\ events \in Nat /\ login \in Nat /\ login <= events + 1
      /\ \A a \in CxAccounts : issued[a] \in Nat /\ issued[a] <= events + 1
  <2>1. events \in Nat /\ login \in Nat /\ login <= events + 1
    BY DEF TokensOK
  <2>2. \A a \in CxAccounts : issued[a] \in Nat /\ issued[a] <= events + 1
    BY DEF TokensOK
  <2> QED BY <2>1, <2>2
<1>2. login + 1 \in Gens /\ login + 1 <= events + 2 /\ events + 1 \in 0 .. CxMaxEvents
  BY <1>0, <1>1 DEF Gens
<1>3. \A a \in CxAccounts : issued[a] <= (events + 1) + 1
  BY <1>1
<1>4. TokensOK'
  BY <1>0, <1>1, <1>2, <1>3 DEF TokensOK, tokens
<1>5. c \in MaybeCred /\ c # None /\ c.acc = 0 /\ c = Cred(0, login')
  BY <1>0, <1>2, Credentials
<1> HIDE DEF c
<1>6. ring' \in {ring, c} /\ file' \in {file, c, None}
  BY <1>0 DEF Save
<1>7. VaultOK' /\ DiskOK' /\ RunOK' /\ MemOK' /\ LeaseOK' /\ SyncOK'
  BY <1>0, <1>5, <1>6, Credentials
     DEF VaultOK, DiskOK, RunOK, MemOK, LeaseOK, SyncOK, Looked, fixed, vault, mem, tokens
<1>8. KnownOK'
  BY <1>0, <1>5, <1>6 DEF KnownOK, Known, vault, mem, tokens
<1>9. NativeOK'
  <2> SUFFICES ASSUME excused' = {}
               PROVE  /\ ringUp' /\ backup' = None /\ pc' = "idle" /\ Stored' = Cred(0, login')
    BY DEF NativeOK
  <2>1. excused = {} /\ backup = None /\ pc = "idle" /\ ringUp
    BY <1>0 DEF NativeOK
  <2>2. place' = place /\ place \in {"file", "keyring", "auto"} /\ ringUp' = ringUp
    BY <1>0 DEF fixed, RunOK
  <2>3. Stored' = c
    BY <1>0, <1>5, <2>1, <2>2 DEF Save, Stored, FoundIn
  <2> QED BY <1>0, <1>5, <2>1, <2>3
<1> QED BY <1>4, <1>7, <1>8, <1>9

\* No step loses the invariant.
LEMMA IInvStep == ManagerIInv /\ [Next]_vars => ManagerIInv'
<1> SUFFICES ASSUME ManagerIInv, [Next]_vars PROVE ManagerIInv'
  OBVIOUS
<1>1. CASE Manager
  BY <1>1, SyncLoadStep, SyncWriteStep, ChooseStep, EnsureLeaseStep, LoadStep, SaveWantStep,
     MarkUsedStep, RestoreStep, RemoveBackupStep, ReleaseStep DEF Manager
<1>2. CASE Around
  BY <1>2, ProcessSteps, CliRotateStep, SettingSteps, UserLoginStep, VaultRotateStep,
     ReloginStep, LapseStep, RowSteps, LeaseSteps DEF Around
<1>3. CASE UNCHANGED vars
  BY <1>3 DEF vars, ManagerIInv, VaultOK, DiskOK, MemOK, RunOK, TokensOK, LeaseOK, KnownOK, Known,
              SyncOK, Looked, NativeOK, Stored, FoundIn, fixed, vault, tokens, disk, mem
<1> QED BY <1>1, <1>2, <1>3 DEF Next

-----------------------------------------------------------------------------
(* Theorems. *)

\* Whatever fails, crashes and restarts, in whatever order: the login the user had is
\* where the CLI looks, or in the backup that swapCredential makes once and
\* restoreCredentialBackup removes last; and currentLeaseID, while the vault knows it,
\* is the lease of currentAccountID.
THEOREM LoginIsKept == Spec => []ManagerInv
<1>1. ManagerIInv => ManagerInv
  <2> SUFFICES ASSUME ManagerIInv PROVE ManagerInv
    OBVIOUS
  <2> USE DEF ManagerIInv
  <2>1. MaybeCred \subseteq Creds
    <3> SUFFICES ASSUME NEW c \in MaybeCred, c # None PROVE c \in Creds
      BY DEF Creds
    <3>1. c = Cred(c.acc, c.gen) /\ c.acc \in CxAccounts \cup {0} /\ c.gen \in Gens
      BY DEF MaybeCred, Cred
    <3> QED BY <3>1 DEF Creds, Logins, Gens
  <2>2. backup # None => backup \in [was : Creds]
    BY <2>1 DEF DiskOK
  <2>3. /\ row \in [CxAccounts -> [gen : Gens, ok : BOOLEAN, pin : {"none", "me", "any"}]]
        /\ holder \in [CxAccounts -> {"none", "me", "other"}] /\ auto \in BOOLEAN
    BY DEF VaultOK, RowType
  <2>4. /\ issued \in [CxAccounts -> Gens] /\ lapsed \in [CxAccounts -> 0 .. (CxMaxEvents + 1)]
        /\ events \in 0 .. CxMaxEvents
    <3>1. Gens \cup {0} = 0 .. (CxMaxEvents + 1)
      BY Parameters DEF Gens
    <3> QED BY <3>1 DEF TokensOK
  <2>5. ring \in Creds /\ file \in Creds /\ got.raw \in Creds /\ got.want \in Creds
    BY <2>1, Locals DEF DiskOK, MemOK
  <2>6. /\ cur \in CxAccounts \cup {0} /\ lease \in LeaseStates /\ got.lease \in LeaseStates
        /\ lease = "live" => cur # 0 /\ holder[cur] = "me"
    BY Locals, Parameters DEF MemOK, LeaseOK
  <2>7. TypeOK
    BY <2>2, <2>3, <2>4, <2>5, <2>6 DEF TypeOK, RunOK, Gens
  <2>8. NativeKept
    BY DEF NativeKept, NativeOK
  <2> QED BY <2>7, <2>8 DEF ManagerInv
<1> QED BY InitIInv, IInvStep, <1>1, PTL DEF Spec

\* The vault's row of an account only gets a token older than its own when the row
\* changed between reverseSync's list and its write.
LEMMA RowStep ==
    ASSUME ManagerIInv, [Next]_vars, NEW a \in CxAccounts, row'[a].gen < row[a].gen
    PROVE  got.raw.acc = a /\ got.seen # row[a].gen
<1> USE Parameters DEF ManagerIInv
<1>0. /\ row \in [CxAccounts -> RowType] /\ row[a].gen \in Nat /\ row' # row
      /\ issued[a] \in Nat /\ row[a].gen <= issued[a]
  <2>1. row \in [CxAccounts -> RowType]
    BY DEF VaultOK
  <2>2. row[a].gen \in Nat
    BY <2>1, Columns
  <2>3. issued[a] \in Nat /\ row[a].gen <= issued[a]
    BY DEF TokensOK, KnownOK
  <2> QED BY <2>1, <2>2, <2>3
<1>1. CASE SyncWrite
  <2> DEFINE b == got.raw.acc
  <2>1. /\ Managed(got.raw) /\ got.raw.gen >= got.seen
        /\ row' = [row EXCEPT ![b].gen = got.raw.gen]
    BY <1>0, <1>1 DEF SyncWrite, Allowed
  <2>2. b \in CxAccounts /\ got.raw.gen \in Gens /\ got.seen \in Nat
    BY <2>1, Credentials, Locals DEF MemOK
  <2>3. PICK q : q = [row[b] EXCEPT !.gen = got.raw.gen]
    OBVIOUS
  <2>4. row' = [row EXCEPT ![b] = q]
    BY <1>0, <2>1, <2>3
  <2>5. q.gen = got.raw.gen
    <3>1. row[b] \in RowType
      BY <1>0, <2>2
    <3> QED BY <2>2, <2>3, <3>1, Columns
  <2>6. b = a
    BY <1>0, <2>4
  <2>7. row'[a].gen = got.raw.gen
    BY <1>0, <2>2, <2>4, <2>5, <2>6
  <2> QED BY <1>0, <2>1, <2>2, <2>6, <2>7
<1>2. ASSUME NEW b \in CxAccounts, VaultRotate(b) \/ Relogin(b) PROVE FALSE
  <2>1. row'[a].gen \in {row[a].gen, issued[a] + 1}
    <3>1. \A r \in RowType, g \in Gens : [r EXCEPT !.gen = g].gen = g
      BY DEF RowType
    <3>2. \A r \in RowType : [r EXCEPT !.ok = FALSE].gen = r.gen
      BY DEF RowType
    <3>3. CASE b # a
      BY <1>0, <1>2, <3>3 DEF VaultRotate, Relogin
    <3>4. CASE b = a /\ Relogin(a)
      BY <1>0, <3>4 DEF Relogin
    <3>5. CASE b = a /\ row' = [row EXCEPT ![a].ok = FALSE]
      BY <1>0, <3>2, <3>5
    <3>6. CASE b = a /\ row' = [row EXCEPT ![a].gen = issued[a] + 1]
      BY <1>0, <3>6 DEF RowType
    <3> QED BY <1>2, <3>3, <3>4, <3>5, <3>6 DEF VaultRotate
  <2> QED BY <1>0, <2>1
<1>3. ASSUME NEW b \in CxAccounts,
             \/ Toggle(b) \/ Select(b) \/ PinForAll(b) \/ OtherTakes(b)
             \/ row' = [row EXCEPT ![b].pin = "none"]
      PROVE  FALSE
  <2>1. /\ \A r \in RowType, k \in BOOLEAN : [r EXCEPT !.ok = k].gen = r.gen
        /\ \A r \in RowType, p \in {"none", "me", "any"} : [r EXCEPT !.pin = p].gen = r.gen
    BY DEF RowType
  <2>2. row'[a].gen = row[a].gen
    BY <1>0, <1>3, <2>1 DEF Toggle, Select, PinForAll, OtherTakes, RowType
  <2> QED BY <1>0, <2>2
<1>4. CASE MarkUsed
  BY <1>0, <1>3, <1>4 DEF MarkUsed, LeaseOK
<1>5. CASE \/ SyncLoad \/ Choose \/ EnsureLease \/ Load \/ SaveWant \/ Restore
           \/ RemoveBackup \/ Release \/ Quit \/ Crash \/ Start \/ CliRotate \/ ToggleAuto
           \/ ActivityTurns \/ KeyringTurns \/ UserLogin \/ UNCHANGED vars
           \/ \E b \in CxAccounts : Lapse(b) \/ OtherLeaves(b) \/ Expire(b)
  BY <1>0, <1>5 DEF SyncLoad, Choose, EnsureLease, Load, SaveWant, Restore, RemoveBackup,
     Release, Quit, Crash, Start, CliRotate, ToggleAuto, ActivityTurns, KeyringTurns, UserLogin,
     Lapse, OtherLeaves, Expire, vars, vault
<1> QED BY <1>1, <1>2, <1>3, <1>4, <1>5 DEF Next, Manager, Around

\* A row that is older than a token the reconcile read before is a row it could not
\* have written.
LEMMA OverwriteIsExcused ==
    ManagerIInv /\ Readable /\ OnlyHere(Stored) /\ pc \in {"save", "restore"} =>
        \/ got.raw # Stored \/ got.failed \/ Stored.gen <= lapsed[Stored.acc]
        \/ row[Stored.acc].gen # got.seen
<1> SUFFICES ASSUME ManagerIInv, OnlyHere(Stored), pc \in {"save", "restore"}, got.raw = Stored,
                    ~ got.failed, ~ (Stored.gen <= lapsed[Stored.acc]),
                    row[Stored.acc].gen = got.seen
             PROVE  FALSE
  OBVIOUS
<1>1. Looked /\ row[Stored.acc].gen < Stored.gen
  BY StoredIsThere, Credentials DEF OnlyHere, Looked
<1>2. /\ Stored.acc \in CxAccounts /\ Stored.gen \in Nat /\ row[Stored.acc].gen \in Nat
  BY <1>1, StoredIsThere, Credentials, Columns, Parameters DEF ManagerIInv, VaultOK, Looked
<1> QED BY <1>1, <1>2 DEF ManagerIInv, SyncOK

\* reverseSync loses no token it could push, and pushes none over a newer one it saw.
THEOREM PushesAreSafe == Spec => TokensKept
<1>1. ManagerIInv /\ [Next]_vars =>
        [\A a \in CxAccounts : row'[a].gen < row[a].gen =>
            got.raw.acc = a /\ got.seen # row[a].gen]_vars
  BY RowStep
<1>2. ManagerIInv /\ [Next]_vars =>
        [(up = "run" /\ Readable /\ OnlyHere(Stored) /\ pc \in {"save", "restore"}
            /\ Stored' # Stored /\ issued' = issued /\ login' = login) =>
            \/ got.raw # Stored \/ got.failed \/ Stored.gen <= lapsed[Stored.acc]
            \/ row[Stored.acc].gen # got.seen]_vars
  BY OverwriteIsExcused
<1> QED BY InitIInv, IInvStep, <1>1, <1>2, PTL
        DEF Spec, TokensKept, RowRegressesOnlyByRace, UnsyncedIsRare
=============================================================================
