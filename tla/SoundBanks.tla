----------------------------- MODULE SoundBanks -----------------------------
(***************************************************************************)
(* The firmware's sound store (features/speaker_assets): two Flash banks,  *)
(* A and B, of which at most one is active while the other takes the next  *)
(* update.  A bank holds a staging header (the plan of the update that     *)
(* fills it, its magic written last), a manifest and payload blocks (the   *)
(* units), and a commit sector whose marker makes the bank valid.          *)
(*                                                                         *)
(* A Flash operation may fail: it is refused, interrupted half way, or     *)
(* complete and reported as failed all the same.  Every such outcome is a  *)
(* disjunct of the operation it can happen to, and a power loss may take   *)
(* the place of the error report: PowerLoss(f) leaves the Flash of that    *)
(* outcome and the RAM of a boot.  The advisory journal, which no decision *)
(* reads, and the erased tails of the regions are left out.                *)
(***************************************************************************)
EXTENDS Naturals, FiniteSets

CONSTANTS Contents,       \* what a bundle may contain
          NBlocks,        \* payload blocks of a bundle (the code: up to 128)
          Slots,          \* read leases (the code: eight)
          MaxGeneration,  \* bound on the generations that are begun
          MaxWear,        \* bound on the units that decay while staged
          Careful,        \* the client commits only once its manifest is acknowledged
          Blank,          \* erased Flash
          Torn,           \* Flash that is neither erased nor well formed
          None            \* no transaction, no lease, no content

ASSUME SoundBanksAssumption ==
  /\ NBlocks \in Nat /\ MaxGeneration \in Nat /\ MaxWear \in Nat
  /\ Careful \in BOOLEAN
  /\ Cardinality({Blank, Torn, None}) = 3
  /\ {Blank, Torn, None} \cap Contents = {}

Banks == {"A", "B"}
Other(b) == IF b = "A" THEN "B" ELSE "A"

Units == 0 .. NBlocks     \* unit 0 is the manifest

NoBundle == [gen |-> 0, content |-> None]
Bundles == [gen : 0 .. MaxGeneration, content : Contents \cup {None}]

(* A plan names the bundle it replaces and the content it brings; with the *)
(* bank it determines the transaction id, which is a hash of them.         *)
Plans == [base : Bundles, content : Contents]
Transactions == [bank : Banks, plan : Plans]

ASSUME NoneIsNoTransaction == None \notin Transactions

Transaction(b, plan) == [bank |-> b, plan |-> plan]
Generation(t) == t.plan.base.gen + 1

VARIABLES
  flash,      \* [Banks -> header, units, commit record]
  scanned,    \* scanned_: selection holds what the last strict scan found
  selection,  \* selection_.bank_a / bank_b: the transaction each bank holds
  fast,       \* read_selection_: known?, and the transaction readers are given
  update,     \* the open transaction (update_active_, update_plan_, ...)
  complete,   \* manifest_complete_ and payload_complete_
  lease,      \* read_leases_: the transaction each slot pins
  wear        \* units that decayed so far (bound)

ram == <<scanned, selection, fast, update, complete, lease>>
vars == <<flash, ram, wear>>

Commits == {Blank} \cup [of : Transactions, whole : BOOLEAN]
Images == [header : Transactions \cup {Blank, Torn},
           unit   : [Units -> Contents \cup {Blank, Torn}],
           commit : Commits]

TypeOK ==
  /\ flash \in [Banks -> Images]
  /\ scanned \in BOOLEAN
  /\ selection \in [Banks -> Transactions \cup {None}]
  /\ fast \in [known : BOOLEAN, of : Transactions \cup {None}]
  /\ update \in Transactions \cup {None}
  /\ complete \in SUBSET Units
  /\ update = None => complete = {}
  /\ lease \in [Slots -> Transactions \cup {None}]
  /\ wear \in 0 .. MaxWear

-----------------------------------------------------------------------------
(* Reading the banks. *)

BlankBank == [header |-> Blank,
              unit   |-> [u \in Units |-> Blank],
              commit |-> Blank]

(* decode_commit: body and marker are both in place. *)
Committed(f) == f.commit # Blank /\ f.commit.whole

(* decode_staging_header: the bank belongs to an upload. *)
Staged(f) == f.header \notin {Blank, Torn}

(* verify_manifest, verify_payload_block: the checksums of the plan. *)
Verified(f, t, u) == f.unit[u] = t.plan.content

(* validate_sound_bank: the commit record, and every unit it vouches for.  *)
ValidBank(f) == Committed(f) /\ \A u \in Units : Verified(f, f.commit.of, u)

(* validate_sound_bank_read_candidate: the manifest alone. *)
ReadableBank(f) == Committed(f) /\ Verified(f, f.commit.of, 0)

Strict(fl) == [b \in Banks |-> IF ValidBank(fl[b]) THEN fl[b].commit.of
                                                   ELSE None]
Readable(fl) == [b \in Banks |-> IF ReadableBank(fl[b]) THEN fl[b].commit.of
                                                        ELSE None]

(* select_sound_banks: of two valid banks the later generation, when it is *)
(* the very next one; the same bundle twice is no conflict.                *)
SplitBrain(sel) ==
  /\ None \notin {sel["A"], sel["B"]}
  /\ LET a == Generation(sel["A"])
         b == Generation(sel["B"])
     IN  \/ a > b + 1
         \/ b > a + 1
         \/ a = b /\ sel["A"].plan.content # sel["B"].plan.content

Active(sel) ==
  CASE SplitBrain(sel)  -> None
    [] sel["A"] = None  -> sel["B"]
    [] sel["B"] = None  -> sel["A"]
    [] OTHER            -> IF Generation(sel["B"]) > Generation(sel["A"])
                           THEN sel["B"] ELSE sel["A"]

BundleOf(t) == IF t = None THEN NoBundle
               ELSE [gen |-> Generation(t), content |-> t.plan.content]

-----------------------------------------------------------------------------
(* The RAM side: what a boot, a failed scan and a scan leave behind. *)

Unknown == [b \in Banks |-> None]
Unread == [known |-> FALSE, of |-> None]

Boot ==
  /\ scanned = FALSE /\ selection = Unknown /\ fast = Unread
  /\ update = None /\ complete = {} /\ lease = [s \in Slots |-> None]

Reboot ==
  /\ scanned' = FALSE /\ selection' = Unknown /\ fast' = Unread
  /\ update' = None /\ complete' = {} /\ lease' = [s \in Slots |-> None]

ForgetNothing == UNCHANGED <<scanned, selection, fast>>   \* mutant

(* The caches are dropped because Flash may have changed unnoticed. *)
Forget == scanned' = FALSE /\ selection' = Unknown /\ fast' = Unread

Publish(sel) ==
  /\ scanned' = TRUE /\ selection' = sel
  /\ fast' = [known |-> TRUE, of |-> Active(sel)]

(* Operations scan first when nothing is known; a scan needs no update.    *)
Known == IF scanned THEN selection ELSE Strict(flash)
ScanIfNeeded == IF scanned THEN UNCHANGED <<scanned, selection, fast>>
                ELSE Publish(Known)

ClearUpdateOnly == update' = None /\ UNCHANGED complete   \* mutant
ClearUpdate == update' = None /\ complete' = {}

Init ==
  /\ flash = [b \in Banks |-> BlankBank]
  /\ Boot
  /\ wear = 0

SetBank(b, f) == flash' = [flash EXCEPT ![b] = f]

PowerLoss(b, f) == SetBank(b, f) /\ Reboot /\ UNCHANGED wear

(* The states an interrupted erase of some parts may leave. *)
ErasedHeader(h) == {h, Torn, Blank}
ErasedUnits(f) ==
  {g \in [Units -> Contents \cup {Blank, Torn}] :
     \A u \in Units : g[u] \in {f.unit[u], Torn, Blank}}
ErasedCommit(c) ==
  IF c = Blank THEN {Blank} ELSE {Blank, c, [c EXCEPT !.whole = FALSE]}

-----------------------------------------------------------------------------
(* Every operation but the commit can fail in its first scan. *)
ScanFails == update = None /\ ~scanned /\ Forget
             /\ UNCHANGED <<flash, update, complete, lease, wear>>

(* An operation that scans and then answers without changing anything:     *)
(* StaleBase, BankPinned, InvalidStaging, Busy, TransactionMismatch, and   *)
(* every transaction query.                                                *)
Scan ==
  /\ update = None /\ ~scanned
  /\ Publish(Strict(flash))
  /\ UNCHANGED <<flash, update, complete, lease, wear>>

(* query_current_active: validates Flash even while an update is open, and *)
(* closes the update when its commit turns out to have landed.             *)
QueryCurrentActive ==
  LET truth == Strict(flash)
      landed == update # None /\ BundleOf(Active(truth)).gen = Generation(update)
                /\ Active(truth).bank = update.bank
  IN  /\ UNCHANGED <<flash, lease, wear>>
      /\ \/ /\ Forget                          \* a read failed, or split brain
            /\ UNCHANGED <<update, complete>>
         \/ /\ ~SplitBrain(truth)
            /\ Publish(truth)
            /\ IF landed /\ Active(truth) = update THEN ClearUpdate
               ELSE UNCHANGED <<update, complete>>

-----------------------------------------------------------------------------
(* begin_or_resume_update and resume_update. *)

PinnedNever(b) == FALSE   \* mutant: leases are not looked at
Pinned(b) == \E s \in Slots : lease[s] # None /\ lease[s].bank = b

Target(sel) == IF Active(sel) = None THEN "A" ELSE Other(Active(sel).bank)

(* The plan replaces the active bundle, and its bank is free. *)
MayBegin(plan) ==
  /\ update = None
  /\ ~SplitBrain(Known)
  /\ plan.base = BundleOf(Active(Known))
  /\ ~Pinned(Target(Known))

ReclaimableUnlessTorn(b) == Known[b] # None \/ flash[b].header # Torn   \* mutant

(* Staging that cannot be resumed any more, or that never was. *)
Reclaimable(b) ==
  \/ Known[b] # None
  \/ flash[b].header = Blank
  \/ /\ Staged(flash[b])
     /\ Active(Known) # None
     /\ Generation(flash[b].header) <= Generation(Active(Known))

(* begin_new_update: the commit sector is erased first, then the bank; the *)
(* header is written last, and its magic last of all.                      *)
BeginNew(plan) ==
  LET b == Target(Known)
      f == flash[b]
      begun == [BlankBank EXCEPT !.header = Transaction(b, plan)]
  IN  /\ MayBegin(plan) /\ plan.base.gen < MaxGeneration
      /\ Reclaimable(b)
      /\ \/ \E c \in ErasedCommit(f.commit) :    \* the first erase fails
              LET g == [f EXCEPT !.commit = c]
              IN  \/ PowerLoss(b, g)
                  \/ /\ SetBank(b, g) /\ Forget
                     /\ UNCHANGED <<update, complete, lease, wear>>
         \/ \E h \in ErasedHeader(f.header), us \in ErasedUnits(f) :
              LET g == [header |-> h, unit |-> us, commit |-> Blank]
              IN  \/ PowerLoss(b, g)             \* the second erase fails
                  \/ /\ SetBank(b, g)
                     /\ scanned' = TRUE
                     /\ selection' = [Known EXCEPT ![b] = None]
                     /\ fast' = IF scanned THEN fast
                                ELSE [known |-> TRUE, of |-> Active(Known)]
                     /\ UNCHANGED <<update, complete, lease, wear>>
         \/ \E h \in {Blank, Torn, begun.header}, ok \in BOOLEAN :
              LET g == [BlankBank EXCEPT !.header = h]
              IN  \/ PowerLoss(b, g)             \* the header is not confirmed
                  \/ /\ ok => h = begun.header   \* or is
                     /\ SetBank(b, g)
                     /\ scanned' = TRUE
                     /\ selection' = [Known EXCEPT ![b] = None]
                     /\ fast' = IF scanned THEN fast
                                ELSE [known |-> TRUE, of |-> Active(Known)]
                     /\ update' = IF ok THEN begun.header ELSE None
                     /\ complete' = {}
                     /\ UNCHANGED <<lease, wear>>

(* load_staging_header: the open update is rebuilt from Flash alone. *)
Load(t) ==
  /\ flash[t.bank].header = t
  /\ t.plan.base = BundleOf(Active(Known))
  /\ update' = t
  /\ complete' = {u \in Units : Verified(flash[t.bank], t, u)}
  /\ ScanIfNeeded
  /\ UNCHANGED <<flash, lease, wear>>

(* begin_or_resume_update with the plan that is already staged. *)
BeginStaged(plan) ==
  /\ MayBegin(plan)
  /\ ~Reclaimable(Target(Known)) /\ Staged(flash[Target(Known)])
  /\ Load(Transaction(Target(Known), plan))

(* resume_update: the transaction is looked for in both banks. *)
ResumeUpdate(b) ==
  /\ update = None /\ ~SplitBrain(Known)
  /\ Known[b] = None /\ ~Pinned(b)
  /\ Staged(flash[b])
  /\ Load(flash[b].header)

-----------------------------------------------------------------------------
(* The open update. *)

(* What rewriting one unit can leave in Flash when it is not confirmed. *)
Rewritten(u) == {flash[update.bank].unit[u], Torn, Blank, update.plan.content}
WithUnit(u, v) == [flash[update.bank] EXCEPT !.unit[u] = v]

(* write_manifest, with input the plan's checksums accept: a manifest that *)
(* still verifies is left alone, any other is erased, written, read back.  *)
WriteManifest ==
  /\ update # None
  /\ 0 \notin complete \/ ~Verified(flash[update.bank], update, 0)
  /\ \E v \in Rewritten(0), ok \in BOOLEAN :
       \/ PowerLoss(update.bank, WithUnit(0, v))
       \/ /\ ok => v = update.plan.content
          /\ SetBank(update.bank, WithUnit(0, v))
          /\ complete' = IF ok THEN complete \cup {0} ELSE complete \ {0}
          /\ UNCHANGED <<scanned, selection, fast, update, lease, wear>>

(* write_payload_block: a block that was complete and is no more is only   *)
(* marked, and answered with CrcMismatch.                                  *)
WritePayloadBlock(u) ==
  /\ update # None
  /\ \/ /\ u \in complete
        /\ ~Verified(flash[update.bank], update, u)
        /\ complete' = complete \ {u}
        /\ UNCHANGED <<flash, scanned, selection, fast, update, lease, wear>>
     \/ /\ u \notin complete
        /\ \E v \in Rewritten(u), ok \in BOOLEAN :
             \/ PowerLoss(update.bank, WithUnit(u, v))
             \/ /\ ok => v = update.plan.content
                /\ SetBank(update.bank, WithUnit(u, v))
                /\ complete' = IF ok THEN complete \cup {u} ELSE complete
                /\ UNCHANGED <<scanned, selection, fast, update, lease, wear>>

(* Programming only clears bits: the same record again completes it, and   *)
(* over another record the result is neither.                              *)
Programmed(old, t) ==
  IF old = Blank \/ old.of = t THEN [of |-> t, whole |-> TRUE]
  ELSE [old EXCEPT !.whole = FALSE]
HalfProgrammed(old, t) ==
  IF old = [of |-> t, whole |-> TRUE] THEN old
  ELSE [Programmed(old, t) EXCEPT !.whole = FALSE]

NothingMarked(n) == complete   \* mutant: what was verified is not noted
(* verify_all_payload_blocks marks the blocks in order, as it finds them.   *)
Marked(n) == complete \cup 1..n

(* commit_update that gets no further than its n first blocks: the next    *)
(* one cannot be read, or is not what the plan says and is unmarked.       *)
CommitRefused(n) ==
  LET f == flash[update.bank]
  IN  /\ update # None
      /\ Careful => 0 \in complete
      /\ n < NBlocks
      /\ \A u \in 0..n : Verified(f, update, u)
      /\ \/ complete' = Marked(n)
         \/ /\ ~Verified(f, update, n + 1)
            /\ complete' = Marked(n) \ {n + 1}
      /\ UNCHANGED <<flash, scanned, selection, fast, update, lease, wear>>

(* commit_update: all is verified from Flash, every block is marked, then  *)
(* the body and the marker are written.  Once the marker is in place the   *)
(* bundle is active, whatever the operation reports.                       *)
CommitUpdate ==
  LET b == update.bank
      f == flash[b]
      done == [f EXCEPT !.commit = Programmed(f.commit, update)]
      partial == {f, done, [f EXCEPT !.commit = HalfProgrammed(@, update)]}
      truth == Strict([flash EXCEPT ![b] = done])
  IN  /\ update # None
      /\ Careful => 0 \in complete
      /\ \A u \in Units : Verified(f, update, u)
      /\ \/ \E g \in partial :
              \/ PowerLoss(b, g)
              \/ /\ SetBank(b, g)
                 /\ complete' = Marked(NBlocks)
                 /\ UNCHANGED <<scanned, selection, fast, update, lease, wear>>
         \/ /\ ValidBank(done) /\ done.commit.of = update
            /\ Active(truth) = update
            /\ SetBank(b, done)
            /\ Publish(truth)
            /\ ClearUpdate
            /\ UNCHANGED <<lease, wear>>

(* abort_update: a commit that has landed is recovered, never cancelled.   *)
AbortUpdate ==
  LET b == update.bank
      truth == Strict(flash)
      with(h) == [flash[b] EXCEPT !.header = h]
  IN  /\ update # None
      /\ \/ /\ ValidBank(flash[b])
            /\ truth[b] = update /\ Active(truth) = update
            /\ Publish(truth)
            /\ ClearUpdate
            /\ UNCHANGED <<flash, lease, wear>>
         \/ /\ ~ValidBank(flash[b])
            /\ \/ \E h \in ErasedHeader(flash[b].header) :
                    \/ PowerLoss(b, with(h))
                    \/ SetBank(b, with(h)) /\ UNCHANGED <<ram, wear>>
               \/ /\ SetBank(b, with(Blank))
                  /\ ClearUpdate
                  /\ UNCHANGED <<scanned, selection, fast, lease, wear>>

-----------------------------------------------------------------------------
(* discard_invalid_staging: a torn header is the only thing it may erase.  *)
DiscardInvalidStaging(plan) ==
  LET b == Target(Known)
      f == flash[b]
  IN  /\ MayBegin(plan)
      /\ Known[b] = None
      /\ f.header = Torn
      /\ \/ \E h \in ErasedHeader(f.header), us \in ErasedUnits(f),
               c \in ErasedCommit(f.commit) :
              LET g == [header |-> h, unit |-> us, commit |-> c]
              IN  \/ PowerLoss(b, g)
                  \/ /\ SetBank(b, g) /\ Forget
                     /\ UNCHANGED <<update, complete, lease, wear>>
         \/ /\ SetBank(b, BlankBank)
            /\ scanned' = TRUE
            /\ selection' = [Known EXCEPT ![b] = None]
            /\ fast' = Unread
            /\ UNCHANGED <<update, complete, lease, wear>>

-----------------------------------------------------------------------------
(* Reads: a lease pins the bundle the player is streaming. *)

(* scan_committed_content: the commit records choose a candidate, whose    *)
(* manifest alone is authenticated; the other bank is the fallback.        *)
FastChoice ==
  LET records == [b \in Banks |-> IF Committed(flash[b]) THEN flash[b].commit.of
                                                         ELSE None]
      first == Active(records)
  IN  IF first # None /\ ReadableBank(flash[first.bank]) THEN first
      ELSE Active(Readable(flash))

AcquireActiveRead(s) ==
  LET choice == IF fast.known THEN fast.of ELSE FastChoice
  IN  /\ fast.known \/ update = None
      /\ lease[s] = None
      /\ lease' = [lease EXCEPT ![s] = choice]
      /\ fast' = [known |-> TRUE, of |-> choice]
      /\ UNCHANGED <<flash, scanned, selection, update, complete, wear>>

ReleaseRead(s) ==
  /\ lease[s] # None
  /\ lease' = [lease EXCEPT ![s] = None]
  /\ UNCHANGED <<flash, scanned, selection, fast, update, complete, wear>>

(* query_transaction_outcome, once scanned: answered from RAM alone. *)
Outcome(t) ==
  CASE update = t                               -> "active"
    [] update # t /\ \E b \in Banks : selection[b] = t -> "committed"
    [] OTHER                                    -> "unknown"

-----------------------------------------------------------------------------
(* The environment. *)

(* The device loses power between two operations. *)
PowerCycle == Reboot /\ UNCHANGED <<flash, wear>>

(* A staged unit decays after it was verified. *)
Decay(b, u) ==
  /\ wear < MaxWear
  /\ flash[b].commit = Blank
  /\ flash[b].unit[u] \in Contents
  /\ SetBank(b, [flash[b] EXCEPT !.unit[u] = Torn])
  /\ wear' = wear + 1
  /\ UNCHANGED ram

Next ==
  \/ Scan \/ ScanFails \/ QueryCurrentActive
  \/ \E c \in Contents :
       LET plan == [base |-> BundleOf(Active(Known)), content |-> c]
       IN  BeginNew(plan) \/ BeginStaged(plan) \/ DiscardInvalidStaging(plan)
  \/ \E b \in Banks : ResumeUpdate(b)
  \/ WriteManifest
  \/ \E u \in Units \ {0} : WritePayloadBlock(u)
  \/ \E n \in Units : CommitRefused(n)
  \/ CommitUpdate \/ AbortUpdate
  \/ \E s \in Slots : AcquireActiveRead(s) \/ ReleaseRead(s)
  \/ PowerCycle
  \/ \E b \in Banks, u \in Units : Decay(b, u)

Spec == Init /\ [][Next]_vars

-----------------------------------------------------------------------------
(* Properties. *)

Device == INSTANCE ActiveBundle
            WITH NoContent <- None,
                 bundle    <- BundleOf(Active(Strict(flash)))

(* Whatever fails, whenever the power goes, the banks together always hold *)
(* exactly one active bundle, and the only thing that ever happens to it   *)
(* is to be replaced, at once, by the next generation (sound_asset_store). *)
ReplacedAtomically == Device!Spec

(* The bundle a player has leased stays readable to the last byte for as   *)
(* long as the lease is held, through commits and new updates              *)
(* (target_is_pinned, acquire_active_read).                                *)
LeasedBundleIntact ==
  \A s \in Slots : lease[s] # None =>
    LET f == flash[lease[s].bank]
    IN  ValidBank(f) /\ f.commit.of = lease[s]

(* An answer of query_transaction_outcome is never one that Flash has      *)
(* overtaken: committed is durable, and unknown is not said of a bundle    *)
(* that is in place.                                                       *)
OutcomeIsTruthful ==
  scanned =>
    LET truth == Strict(flash)
    IN  /\ \A b \in Banks : selection[b] # None =>
             Outcome(selection[b]) \in {"active", "committed"} /\ truth[b] = selection[b]
        /\ \A b \in Banks : truth[b] # None => Outcome(truth[b]) # "unknown"

(* A complete staging header - an upload that can be continued - goes away *)
(* only by its own abort, or when a later generation has become active:    *)
(* not by another client's update and not by the recovery of torn staging. *)
StagingIsKept ==
  [][\A b \in Banks :
       LET t == flash[b].header
       IN  Staged(flash[b]) /\ flash'[b].header # t
           => \/ update = t
              \/ BundleOf(Active(Strict(flash))).gen >= Generation(t)]_vars
=============================================================================
