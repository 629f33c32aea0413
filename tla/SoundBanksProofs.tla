---------------------------- MODULE SoundBanksProofs ----------------------------
(***************************************************************************)
(* For any contents, number of blocks, read leases and generations, and    *)
(* for a careful client: the two banks implement one bundle that is only   *)
(* ever replaced as a whole, a leased bundle stays intact, and what the    *)
(* store answers of an outcome is true.                                    *)
(*                                                                         *)
(* The invariant rests on one notion.  Seen is what a strict scan finds    *)
(* outside the bank of the open update; everything in RAM agrees with it,  *)
(* every lease is in it, and the open update is built on it.               *)
(*                                                                         *)
(* That an upload survives rests on a second one: a complete staging       *)
(* header in a bank names what its marker was written for, and in the bank *)
(* of the open update it names that update.                                *)
(***************************************************************************)
EXTENDS SoundBanks, TLAPS

Seen == [b \in Banks |-> IF update # None /\ update.bank = b THEN None ELSE Strict(flash)[b]]

\* A bank whose marker is in place holds all of what its record names.
Proper(b, f) ==
  /\ Committed(f) => ValidBank(f) /\ f.commit.of.bank = b
  /\ Staged(f) => f.header.bank = b
FlashInv == \A b \in Banks : Proper(b, flash[b])

\* An open update replaces the bundle that is active beside it; once its marker is in place all
\* its units are marked as complete - the blocks by the commit itself, the manifest by a careful
\* client - so no write touches them again.
UpdateInv ==
  update # None =>
    /\ update.plan.base = BundleOf(Active(Seen))
    /\ Committed(flash[update.bank]) =>
         flash[update.bank].commit.of = update /\ complete = Units

RamInv ==
  /\ scanned => selection = Seen
  /\ fast.known => fast.of = Active(Seen)
  /\ \A s \in Slots : lease[s] # None => Seen[lease[s].bank] = lease[s]

SoundInv == Careful /\ TypeOK /\ FlashInv /\ UpdateInv /\ RamInv

-----------------------------------------------------------------------------
(* Transactions, and which of two the store takes for active. *)

Selections == [Banks -> Transactions \cup {None}]

\* Each bank is given a transaction of its own.
Placed(sel) == \A b \in Banks : sel[b] # None => sel[b].bank = b

LEMMA OtherBank ==
  ASSUME NEW b \in Banks
  PROVE  /\ Other(b) \in Banks /\ Other(b) # b /\ Other(Other(b)) = b
         /\ \A x \in Banks : x = b \/ x = Other(b)
BY DEF Banks, Other

LEMMA TransactionFields ==
  ASSUME NEW t \in Transactions
  PROVE  /\ t # None /\ t.bank \in Banks /\ t.plan \in Plans
         /\ t.plan.content \in Contents /\ t.plan.base \in Bundles
         /\ t.plan.base.gen \in Nat /\ Generation(t) \in Nat
         /\ Generation(t) = t.plan.base.gen + 1
<1>1. t # None
  BY NoneIsNoTransaction
<1>2. t.bank \in Banks /\ t.plan \in Plans
  BY DEF Transactions
<1>3. t.plan.content \in Contents /\ t.plan.base \in Bundles
  BY <1>2 DEF Plans
<1>4. t.plan.base.gen \in Nat
  BY <1>3, SoundBanksAssumption DEF Bundles
<1> QED
  BY <1>1, <1>2, <1>3, <1>4 DEF Generation

LEMMA ActiveIsOne ==
  ASSUME NEW sel \in Selections
  PROVE  /\ Active(sel) \in Transactions \cup {None}
         /\ \A b \in Banks : sel[b] = None => Active(sel) = sel[Other(b)]
         /\ Placed(sel) /\ Active(sel) # None =>
              Active(sel).bank \in Banks /\ sel[Active(sel).bank] = Active(sel)
<1>1. sel["A"] \in Transactions \cup {None} /\ sel["B"] \in Transactions \cup {None}
  BY DEF Selections, Banks
<1>2. \/ Active(sel) = None
      \/ Active(sel) = sel["A"]
      \/ Active(sel) = sel["B"]
  BY DEF Active
<1>3. ASSUME NEW b \in Banks, sel[b] = None PROVE Active(sel) = sel[Other(b)]
  <2>1. ~SplitBrain(sel)
    BY <1>3 DEF SplitBrain, Banks
  <2>2. CASE b = "A"
    BY <1>3, <2>1, <2>2 DEF Active, Other
  <2>3. CASE b = "B"
    BY <1>3, <2>1, <2>3 DEF Active, Other
  <2> QED
    BY <2>2, <2>3 DEF Banks
<1> QED
  BY <1>1, <1>2, <1>3 DEF Placed, Banks

\* Erasing the bank an update goes to leaves the active bundle alone.
LEMMA TargetIsNotActive ==
  ASSUME NEW sel \in Selections, Placed(sel), ~SplitBrain(sel)
  PROVE  /\ Target(sel) \in Banks
         /\ Active([sel EXCEPT ![Target(sel)] = None]) = Active(sel)
<1>1. CASE Active(sel) = None
  <2>1. sel["A"] = None /\ sel["B"] = None
    <3>1. sel["A"] \in Transactions \cup {None} /\ sel["B"] \in Transactions \cup {None}
      BY DEF Selections, Banks
    <3> QED
      BY <1>1, <3>1 DEF Active
  <2>2. Target(sel) = "A" /\ [sel EXCEPT ![Target(sel)] = None] = sel
    BY <1>1, <2>1 DEF Target, Selections
  <2> QED
    BY <1>1, <2>2 DEF Banks
<1>2. CASE Active(sel) # None
  <2> DEFINE a == Active(sel).bank
  <2>1. a \in Banks /\ sel[a] = Active(sel)
    BY <1>2, ActiveIsOne
  <2>2. Target(sel) = Other(a) /\ Target(sel) \in Banks /\ Other(Target(sel)) = a /\ Target(sel) # a
    BY <1>2, <2>1, OtherBank DEF Target
  <2>3. [sel EXCEPT ![Target(sel)] = None] \in Selections
        /\ [sel EXCEPT ![Target(sel)] = None][Target(sel)] = None
        /\ [sel EXCEPT ![Target(sel)] = None][a] = sel[a]
    BY <2>1, <2>2 DEF Selections
  <2> QED
    BY <2>1, <2>2, <2>3, ActiveIsOne
<1> QED
  BY <1>1, <1>2

\* A bundle built on the active one becomes active, and is the next generation.
LEMMA NextIsActive ==
  ASSUME NEW sel \in Selections, NEW t \in Transactions, sel[t.bank] = None,
         t.plan.base = BundleOf(Active(sel))
  PROVE  /\ Active([sel EXCEPT ![t.bank] = t]) = t
         /\ ~SplitBrain([sel EXCEPT ![t.bank] = t])
         /\ BundleOf(t) = [gen |-> BundleOf(Active(sel)).gen + 1, content |-> t.plan.content]
<1> DEFINE new == [sel EXCEPT ![t.bank] = t]
           o == Other(t.bank)
<1>1. /\ t.bank \in Banks /\ o \in Banks /\ o # t.bank /\ t # None
      /\ Generation(t) = t.plan.base.gen + 1 /\ Generation(t) \in Nat
  BY TransactionFields, OtherBank
<1>2. new[t.bank] = t /\ new[o] = sel[o] /\ sel[o] \in Transactions \cup {None}
  BY <1>1 DEF Selections
<1>3. Active(sel) = sel[o]
  BY <1>1, ActiveIsOne
<1>4. sel[o] # None => Generation(sel[o]) \in Nat /\ Generation(t) = Generation(sel[o]) + 1
  BY <1>1, <1>2, <1>3, TransactionFields DEF BundleOf
<1>5. (t.bank = "A" /\ o = "B") \/ (t.bank = "B" /\ o = "A")
  BY <1>1 DEF Banks
<1>6. ~SplitBrain(new)
  BY <1>1, <1>2, <1>4, <1>5 DEF SplitBrain
<1>7. Active(new) = t
  BY <1>1, <1>2, <1>4, <1>5, <1>6 DEF Active
<1> QED
  BY <1>1, <1>6, <1>7 DEF BundleOf

-----------------------------------------------------------------------------
(* What a scan finds. *)

\* The transaction of one bank, to a strict scan.
Found(f) == IF Committed(f) THEN f.commit.of ELSE None

LEMMA ImageFields ==
  ASSUME NEW f \in Images
  PROVE  /\ f = [header |-> f.header, unit |-> f.unit, commit |-> f.commit]
         /\ f.header \in Transactions \cup {Blank, Torn}
         /\ f.unit \in [Units -> Contents \cup {Blank, Torn}]
         /\ f.commit \in Commits
         /\ Committed(f) => f.commit.of \in Transactions
         /\ Found(f) \in Transactions \cup {None}
<1>1. /\ f = [header |-> f.header, unit |-> f.unit, commit |-> f.commit]
      /\ f.header \in Transactions \cup {Blank, Torn}
      /\ f.unit \in [Units -> Contents \cup {Blank, Torn}]
      /\ f.commit \in Commits
  BY DEF Images
<1>2. Committed(f) => f.commit.of \in Transactions
  BY <1>1 DEF Committed, Commits
<1> QED
  BY <1>1, <1>2 DEF Found

LEMMA ScanFinds ==
  ASSUME TypeOK, FlashInv
  PROVE  /\ Strict(flash) \in Selections /\ Placed(Strict(flash))
         /\ \A b \in Banks : Strict(flash)[b] = Found(flash[b])
         /\ Seen \in Selections /\ Placed(Seen)
         /\ Readable(flash) = Strict(flash)
<1>1. ASSUME NEW b \in Banks
      PROVE  /\ Strict(flash)[b] = Found(flash[b]) /\ Readable(flash)[b] = Found(flash[b])
             /\ Found(flash[b]) \in Transactions \cup {None}
             /\ Found(flash[b]) # None => Found(flash[b]).bank = b
  <2>1. flash[b] \in Images /\ Proper(b, flash[b])
    BY DEF TypeOK, FlashInv
  <2>2. ValidBank(flash[b]) <=> Committed(flash[b])
    BY <2>1 DEF Proper, ValidBank
  <2>3. 0 \in Units
    BY SoundBanksAssumption DEF Units
  <2>4. ReadableBank(flash[b]) <=> Committed(flash[b])
    BY <2>1, <2>2, <2>3 DEF ValidBank, ReadableBank
  <2>5. Found(flash[b]) \in Transactions \cup {None}
    BY <2>1, ImageFields
  <2> QED
    BY <2>1, <2>2, <2>4, <2>5 DEF Strict, Readable, Found, Proper
<1>2. Strict(flash) \in Selections /\ Placed(Strict(flash))
  BY <1>1 DEF Strict, Selections, Placed
<1>3. Seen \in Selections /\ Placed(Seen)
  BY <1>2 DEF Seen, Selections, Placed
<1>4. Readable(flash) = Strict(flash)
  BY <1>1 DEF Readable, Strict
<1> QED
  BY <1>1, <1>2, <1>3, <1>4

LEMMA BankSet ==
  ASSUME TypeOK, FlashInv, NEW b \in Banks, NEW g \in Images, Proper(b, g), SetBank(b, g)
  PROVE  /\ flash' \in [Banks -> Images] /\ FlashInv'
         /\ flash'[b] = g /\ flash'[Other(b)] = flash[Other(b)]
         /\ \A x \in Banks \ {b} : flash'[x] = flash[x]
         /\ Strict(flash') = [Strict(flash) EXCEPT ![b] = Found(g)]
<1>1. /\ flash' \in [Banks -> Images] /\ flash'[b] = g
      /\ \A x \in Banks \ {b} : flash'[x] = flash[x]
  BY DEF TypeOK, SetBank
<1>2. FlashInv'
  BY <1>1 DEF FlashInv
<1>3. Found(g) = IF ValidBank(g) THEN g.commit.of ELSE None
  BY DEF Found, Proper, ValidBank
<1>4. Strict(flash') = [Strict(flash) EXCEPT ![b] = Found(g)]
  <2> DEFINE at(x) == IF ValidBank(flash'[x]) THEN flash'[x].commit.of ELSE None
  <2>1. Strict(flash') = [x \in Banks |-> at(x)]
    BY DEF Strict
  <2>2. ASSUME NEW x \in Banks PROVE at(x) = [Strict(flash) EXCEPT ![b] = Found(g)][x]
    <3>1. CASE x = b
      BY <1>1, <1>3, <3>1 DEF Strict
    <3>2. CASE x # b
      BY <1>1, <3>2 DEF Strict
    <3> QED
      BY <3>1, <3>2
  <2>3. [Strict(flash) EXCEPT ![b] = Found(g)] = [x \in Banks |-> [Strict(flash) EXCEPT ![b] = Found(g)][x]]
    BY DEF Strict
  <2> HIDE DEF at
  <2> QED
    BY <2>1, <2>2, <2>3
<1> QED
  BY <1>1, <1>2, <1>4, OtherBank

LEMMA KnownIsFound ==
  ASSUME SoundInv, update = None
  PROVE  Known = Strict(flash) /\ Seen = Strict(flash)
<1>1. Seen = Strict(flash)
  BY DEF Seen, Strict
<1> QED
  BY <1>1 DEF Known, SoundInv, RamInv

\* An update whose marker is not in place leaves nothing to be found in its bank.
LEMMA UncommittedIsUnseen ==
  ASSUME SoundInv, update # None, ~Committed(flash[update.bank])
  PROVE  Seen = Strict(flash) /\ Strict(flash)[update.bank] = None
<1>1. update.bank \in Banks
  BY TransactionFields DEF SoundInv, TypeOK
<1>2. Strict(flash)[update.bank] = None
  BY <1>1, ScanFinds DEF SoundInv, Found
<1> QED
  BY <1>1, <1>2 DEF Seen, Strict

-----------------------------------------------------------------------------
(* What loses or forgets the RAM. *)

LEMMA RebootKeeps ==
  ASSUME SoundInv, flash' \in [Banks -> Images], FlashInv', Reboot, UNCHANGED wear
  PROVE  SoundInv'
<1>1. TypeOK'
  BY DEF SoundInv, TypeOK, Reboot, Unknown, Unread
<1>2. UpdateInv' /\ RamInv'
  BY DEF UpdateInv, RamInv, Reboot, Unread
<1> QED
  BY <1>1, <1>2 DEF SoundInv

LEMMA PowerLossKeeps ==
  ASSUME SoundInv, NEW b \in Banks, NEW g \in Images, Proper(b, g), PowerLoss(b, g)
  PROVE  SoundInv'
BY BankSet, RebootKeeps DEF SoundInv, PowerLoss

\* Flash of a bank that no lease pins changed, and what was known of it is dropped.
LEMMA ForgetKeeps ==
  ASSUME SoundInv, update = None, NEW b \in Banks, NEW g \in Images, Proper(b, g), ~Pinned(b),
         SetBank(b, g), Forget, UNCHANGED <<update, complete, lease, wear>>
  PROVE  SoundInv'
<1>1. /\ flash' \in [Banks -> Images] /\ FlashInv'
      /\ Strict(flash') = [Strict(flash) EXCEPT ![b] = Found(g)]
  BY BankSet DEF SoundInv
<1>2. TypeOK'
  BY <1>1 DEF SoundInv, TypeOK, Forget, Unknown, Unread
<1>3. ASSUME NEW s \in Slots, lease[s] # None PROVE Seen'[lease[s].bank] = lease[s]
  <2>1. lease[s].bank \in Banks /\ lease[s].bank # b
    BY <1>3, TransactionFields DEF SoundInv, TypeOK, Pinned
  <2>2. Seen[lease[s].bank] = lease[s]
    BY <1>3 DEF SoundInv, RamInv
  <2> QED
    BY <1>1, <2>1, <2>2 DEF Seen, Strict
<1>4. UpdateInv' /\ RamInv'
  BY <1>3 DEF UpdateInv, RamInv, Forget, Unread
<1> QED
  BY <1>1, <1>2, <1>4 DEF SoundInv

-----------------------------------------------------------------------------
(* The bundle on show, and the three ways Flash of a bank may change. *)

Shown == BundleOf(Active(Strict(flash)))

\* A step leaves the bundle on show alone, or publishes the next one.
Replaces == Shown' = Shown \/ \E c \in Contents : Device!Publish(c)

LEMMA SameFound ==
  ASSUME TypeOK, FlashInv, NEW b \in Banks, NEW g \in Images, Proper(b, g), SetBank(b, g),
         Found(g) = Found(flash[b])
  PROVE  Strict(flash') = Strict(flash) /\ Replaces
<1>1. Strict(flash') = [Strict(flash) EXCEPT ![b] = Found(g)]
  BY BankSet
<1>2. Strict(flash)[b] = Found(g) /\ Strict(flash) \in Selections
  BY ScanFinds
<1>3. Strict(flash') = Strict(flash)
  BY <1>1, <1>2 DEF Selections
<1> QED
  BY <1>3 DEF Replaces, Shown

LEMMA TargetErased ==
  ASSUME TypeOK, FlashInv, NEW b \in Banks, NEW g \in Images, Proper(b, g), SetBank(b, g),
         b = Target(Strict(flash)), ~SplitBrain(Strict(flash)),
         Found(g) \in {None, Found(flash[b])}
  PROVE  Replaces
<1>1. CASE Found(g) = None
  <2>1. Strict(flash') = [Strict(flash) EXCEPT ![b] = None]
    BY <1>1, BankSet
  <2>2. Active(Strict(flash')) = Active(Strict(flash))
    BY <2>1, ScanFinds, TargetIsNotActive
  <2> QED
    BY <2>2 DEF Replaces, Shown
<1> QED
  BY <1>1, SameFound

LEMMA CommittedIsActive ==
  ASSUME SoundInv, update # None, Committed(flash[update.bank])
  PROVE  /\ Strict(flash) = [Seen EXCEPT ![update.bank] = update]
         /\ Active(Strict(flash)) = update /\ ~SplitBrain(Strict(flash))
<1>1. update \in Transactions /\ update.bank \in Banks
  BY TransactionFields DEF SoundInv, TypeOK
<1>2. /\ Strict(flash) \in Selections /\ Seen \in Selections
      /\ Strict(flash)[update.bank] = Found(flash[update.bank])
  BY <1>1, ScanFinds DEF SoundInv
<1>3. Strict(flash)[update.bank] = update
  BY <1>2 DEF SoundInv, UpdateInv, Found
<1>4. Strict(flash) = [Seen EXCEPT ![update.bank] = update]
  <2>1. \A x \in Banks : Strict(flash)[x] = [Seen EXCEPT ![update.bank] = update][x]
    BY <1>1, <1>3 DEF Seen
  <2> QED
    BY <1>2, <2>1 DEF Selections
<1>5. Seen[update.bank] = None
  BY <1>1 DEF Seen
<1> QED
  BY <1>1, <1>2, <1>4, <1>5, NextIsActive DEF SoundInv, UpdateInv

LEMMA MarkerPublishes ==
  ASSUME SoundInv, update # None, ~Committed(flash[update.bank]), NEW g \in Images,
         Proper(update.bank, g), SetBank(update.bank, g), Found(g) = update
  PROVE  /\ Strict(flash') = [Seen EXCEPT ![update.bank] = update]
         /\ Replaces
<1>1. update \in Transactions /\ update.bank \in Banks /\ update.plan.content \in Contents
  BY TransactionFields DEF SoundInv, TypeOK
<1>2. Seen = Strict(flash) /\ Strict(flash)[update.bank] = None /\ Seen \in Selections
  BY UncommittedIsUnseen, ScanFinds DEF SoundInv
<1>3. Strict(flash') = [Seen EXCEPT ![update.bank] = update]
  BY <1>1, <1>2, BankSet DEF SoundInv
<1>4. Active(Strict(flash')) = update
      /\ BundleOf(update) = [gen |-> Shown.gen + 1, content |-> update.plan.content]
  BY <1>1, <1>2, <1>3, NextIsActive DEF SoundInv, UpdateInv, Shown
<1>5. Device!Publish(update.plan.content)
  BY <1>4 DEF Device!Publish, Shown
<1> QED
  BY <1>1, <1>3, <1>5 DEF Replaces
-----------------------------------------------------------------------------
(* Scans. *)

LEMMA ForgottenKeeps ==
  ASSUME SoundInv, Forget, UNCHANGED <<flash, update, complete, lease, wear>>
  PROVE  SoundInv' /\ Replaces
<1>1. TypeOK'
  BY DEF SoundInv, TypeOK, Forget, Unknown, Unread
<1>2. Seen' = Seen /\ Strict(flash') = Strict(flash)
  BY DEF Seen
<1>3. FlashInv' /\ UpdateInv'
  BY <1>2 DEF SoundInv, FlashInv, UpdateInv
<1>4. RamInv'
  BY <1>2 DEF SoundInv, RamInv, Forget, Unread
<1> QED
  BY <1>1, <1>2, <1>3, <1>4 DEF SoundInv, Replaces, Shown

LEMMA PublishedKeeps ==
  ASSUME SoundInv, Publish(Strict(flash)), Strict(flash) = Seen,
         UNCHANGED <<flash, update, complete, lease, wear>>
  PROVE  SoundInv' /\ Replaces
<1>1. Seen' = Seen /\ Strict(flash') = Strict(flash)
  BY DEF Seen
<1>2. Strict(flash) \in Selections /\ Active(Strict(flash)) \in Transactions \cup {None}
  BY ScanFinds, ActiveIsOne DEF SoundInv
<1>3. TypeOK'
  BY <1>2 DEF SoundInv, TypeOK, Publish, Selections
<1>4. FlashInv' /\ UpdateInv'
  BY <1>1 DEF SoundInv, FlashInv, UpdateInv
<1>5. RamInv'
  BY <1>1 DEF SoundInv, RamInv, Publish
<1> QED
  BY <1>1, <1>3, <1>4, <1>5 DEF SoundInv, Replaces, Shown

\* An update closes because its bundle has been found in place.
LEMMA ClosedKeeps ==
  ASSUME SoundInv, update # None, flash' \in [Banks -> Images], FlashInv',
         Strict(flash') = [Seen EXCEPT ![update.bank] = update],
         Publish(Strict(flash')), ClearUpdate, UNCHANGED <<lease, wear>>
  PROVE  SoundInv'
<1>1. update \in Transactions /\ update.bank \in Banks
  BY TransactionFields DEF SoundInv, TypeOK
<1>2. Seen \in Selections /\ Strict(flash') \in Selections
  BY <1>1, ScanFinds DEF SoundInv, Selections
<1>3. Active(Strict(flash')) \in Transactions \cup {None}
  BY <1>2, ActiveIsOne
<1>4. Seen' = Strict(flash')
  BY DEF Seen, Strict, ClearUpdate
<1>5. TypeOK'
  BY <1>2, <1>3 DEF SoundInv, TypeOK, Publish, ClearUpdate, Selections
<1>6. ASSUME NEW s \in Slots, lease[s] # None PROVE Seen'[lease[s].bank] = lease[s]
  <2>1. Seen[lease[s].bank] = lease[s] /\ lease[s].bank \in Banks
    BY <1>6, TransactionFields DEF SoundInv, RamInv, TypeOK
  <2>2. lease[s].bank # update.bank
    BY <1>1, <1>6, <2>1 DEF Seen
  <2> QED
    BY <1>2, <1>4, <2>1, <2>2 DEF Selections
<1>7. UpdateInv' /\ RamInv'
  BY <1>4, <1>6 DEF UpdateInv, RamInv, Publish, ClearUpdate
<1> QED
  BY <1>5, <1>7 DEF SoundInv

LEMMA QueryKeeps ==
  ASSUME SoundInv, QueryCurrentActive
  PROVE  SoundInv' /\ Replaces
<1>1. CASE Forget /\ UNCHANGED <<update, complete>>
  BY <1>1, ForgottenKeeps DEF QueryCurrentActive
<1>2. CASE Publish(Strict(flash))
           /\ IF /\ update # None /\ BundleOf(Active(Strict(flash))).gen = Generation(update)
                 /\ Active(Strict(flash)).bank = update.bank
                 /\ Active(Strict(flash)) = update
              THEN ClearUpdate ELSE UNCHANGED <<update, complete>>
  <2>1. CASE update = None
    BY <1>2, <2>1, KnownIsFound, PublishedKeeps DEF QueryCurrentActive
  <2>2. CASE update # None /\ Committed(flash[update.bank])
    <3>1. /\ Strict(flash) = [Seen EXCEPT ![update.bank] = update]
          /\ Active(Strict(flash)) = update
      BY <2>2, CommittedIsActive
    <3>2. BundleOf(Active(Strict(flash))).gen = Generation(update)
      BY <2>2, <3>1 DEF BundleOf
    <3>3. ClearUpdate /\ UNCHANGED <<flash, lease, wear>>
      BY <1>2, <2>2, <3>1, <3>2 DEF QueryCurrentActive
    <3>4. flash' \in [Banks -> Images] /\ FlashInv'
      BY <3>3 DEF SoundInv, TypeOK, FlashInv
    <3>5. Replaces
      BY <3>3 DEF Replaces, Shown
    <3> QED
      BY <1>2, <2>2, <3>1, <3>3, <3>4, <3>5, ClosedKeeps
  <2>3. CASE update # None /\ ~Committed(flash[update.bank])
    <3>1. Seen = Strict(flash) /\ Strict(flash)[update.bank] = None
      BY <2>3, UncommittedIsUnseen
    <3>2. Active(Strict(flash)) # update
      BY <2>3, <3>1, ScanFinds, ActiveIsOne DEF SoundInv
    <3> QED
      BY <1>2, <3>1, <3>2, PublishedKeeps DEF QueryCurrentActive
  <2> QED
    BY <2>1, <2>2, <2>3
<1> QED
  BY <1>1, <1>2 DEF QueryCurrentActive

-----------------------------------------------------------------------------
(* Beginning an update. *)

LEMMA EraseFields ==
  ASSUME NEW c \in Commits, NEW e \in ErasedCommit(c)
  PROVE  e \in Commits /\ (e # Blank /\ e.whole => e = c)
<1>1. CASE c = Blank
  BY <1>1 DEF ErasedCommit, Commits
<1>2. CASE c # Blank
  <2>1. c \in [of : Transactions, whole : BOOLEAN]
    BY <1>2 DEF Commits
  <2>2. [c EXCEPT !.whole = FALSE] \in [of : Transactions, whole : BOOLEAN]
        /\ [c EXCEPT !.whole = FALSE].whole = FALSE
    BY <2>1
  <2>3. e \in {Blank, c, [c EXCEPT !.whole = FALSE]}
    BY <1>2 DEF ErasedCommit
  <2> QED
    BY <2>1, <2>2, <2>3 DEF Commits
<1> QED
  BY <1>1, <1>2

\* The target of a new update, once a scan has found no conflict and no reader.
LEMMA MayBeginMeans ==
  ASSUME SoundInv, NEW plan, MayBegin(plan)
  PROVE  /\ update = None /\ Known = Strict(flash) /\ Known = Seen
         /\ Known \in Selections /\ Placed(Known) /\ ~SplitBrain(Known)
         /\ Target(Known) \in Banks /\ ~Pinned(Target(Known))
         /\ flash[Target(Known)] \in Images /\ Proper(Target(Known), flash[Target(Known)])
         /\ Active([Known EXCEPT ![Target(Known)] = None]) = Active(Known)
         /\ plan.base = BundleOf(Active(Known))
         /\ Active(Known) \in Transactions \cup {None}
<1>1. update = None /\ Known = Strict(flash) /\ Known = Seen /\ Known \in Selections /\ Placed(Known)
  BY KnownIsFound, ScanFinds DEF MayBegin, SoundInv
<1>2. /\ ~SplitBrain(Known) /\ ~Pinned(Target(Known)) /\ plan.base = BundleOf(Active(Known))
  BY DEF MayBegin
<1>3. Target(Known) \in Banks
      /\ Active([Known EXCEPT ![Target(Known)] = None]) = Active(Known)
  BY <1>1, <1>2, TargetIsNotActive
<1>4. Active(Known) \in Transactions \cup {None}
  BY <1>1, ActiveIsOne
<1> QED
  BY <1>1, <1>2, <1>3, <1>4 DEF SoundInv, TypeOK, FlashInv

\* The target has been erased, or nearly, and may hold a new header already.
LEMMA ErasedKeeps ==
  ASSUME SoundInv, NEW plan, MayBegin(plan), NEW g \in Images,
         Proper(Target(Known), g), ~Committed(g), SetBank(Target(Known), g),
         scanned' = TRUE, selection' = [Known EXCEPT ![Target(Known)] = None],
         fast' \in [known : BOOLEAN, of : Transactions \cup {None}],
         fast'.known => fast'.of = Active(Known),
         update' # None =>
           update' \in Transactions /\ update'.bank = Target(Known)
           /\ update'.plan.base = BundleOf(Active(Known)),
         complete' = {}, UNCHANGED <<lease, wear>>
  PROVE  SoundInv' /\ Replaces
<1> DEFINE b == Target(Known)
           sel == [Known EXCEPT ![b] = None]
<1>1. /\ update = None /\ Known = Strict(flash) /\ Known = Seen
      /\ Known \in Selections /\ ~SplitBrain(Known) /\ b \in Banks /\ ~Pinned(b)
      /\ Active(sel) = Active(Known)
  BY MayBeginMeans
<1>2. Found(g) = None
  BY DEF Found
<1>3. /\ flash' \in [Banks -> Images] /\ FlashInv' /\ flash'[b] = g
      /\ Strict(flash') = sel
  BY <1>1, <1>2, BankSet DEF SoundInv
<1>4. sel \in Selections /\ sel[b] = None
  BY <1>1 DEF Selections
<1>5. Seen' = sel
  <2>1. Seen' = [x \in Banks |-> IF update' # None /\ update'.bank = x THEN None ELSE sel[x]]
    BY <1>3 DEF Seen
  <2>2. \A x \in Banks : (IF update' # None /\ update'.bank = x THEN None ELSE sel[x]) = sel[x]
    BY <1>4
  <2>3. Seen' = [x \in Banks |-> sel[x]]
    BY <2>1, <2>2
  <2> QED
    BY <1>4, <2>3 DEF Selections
<1>6. TypeOK'
  <2>1. selection' \in [Banks -> Transactions \cup {None}]
    BY <1>4 DEF Selections
  <2>2. update' \in Transactions \cup {None} /\ complete' \in SUBSET Units
        /\ (update' = None => complete' = {})
    OBVIOUS
  <2> QED
    BY <1>3, <2>1, <2>2 DEF SoundInv, TypeOK
<1>7. UpdateInv'
  BY <1>1, <1>3, <1>5 DEF UpdateInv
<1>8. RamInv'
  <2>1. ASSUME NEW s \in Slots, lease[s] # None PROVE Seen'[lease[s].bank] = lease[s]
    <3>1. Known[lease[s].bank] = lease[s] /\ lease[s].bank \in Banks /\ lease[s].bank # b
      BY <1>1, <2>1, TransactionFields DEF SoundInv, RamInv, TypeOK, Pinned
    <3> QED
      BY <1>1, <1>5, <3>1 DEF Selections
  <2> QED
    BY <1>1, <1>5, <2>1 DEF RamInv
<1>9. Replaces
  BY <1>1, <1>2, TargetErased DEF SoundInv
<1> QED
  BY <1>3, <1>6, <1>7, <1>8, <1>9 DEF SoundInv

LEMMA BlankIsProper ==
  ASSUME NEW b \in Banks, NEW h \in Transactions \cup {Blank, Torn},
         h \in {Blank, Torn} \/ h.bank = b
  PROVE  /\ [BlankBank EXCEPT !.header = h] \in Images
         /\ Proper(b, [BlankBank EXCEPT !.header = h])
         /\ ~Committed([BlankBank EXCEPT !.header = h])
<1>1. [BlankBank EXCEPT !.header = h]
        = [header |-> h, unit |-> [u \in Units |-> Blank], commit |-> Blank]
  BY DEF BlankBank
<1>2. [u \in Units |-> Blank] \in [Units -> Contents \cup {Blank, Torn}] /\ Blank \in Commits
  BY DEF Commits
<1>3. [header |-> h, unit |-> [u \in Units |-> Blank], commit |-> Blank] \in Images
  BY <1>2 DEF Images
<1> QED
  BY <1>1, <1>3 DEF Proper, Committed, Staged

LEMMA BeginNewKeeps ==
  ASSUME SoundInv, NEW c0 \in Contents, NEW plan,
         plan = [base |-> BundleOf(Active(Known)), content |-> c0], BeginNew(plan)
  PROVE  SoundInv' /\ Replaces
<1> DEFINE b == Target(Known)
           f == flash[b]
           t == Transaction(b, plan)
           begun == [BlankBank EXCEPT !.header = t]
<1>1. /\ MayBegin(plan) /\ update = None /\ Known = Strict(flash) /\ ~SplitBrain(Known)
      /\ b \in Banks /\ ~Pinned(b) /\ f \in Images /\ Proper(b, f)
      /\ plan.base = BundleOf(Active(Known)) /\ Active(Known) \in Transactions \cup {None}
  BY MayBeginMeans DEF BeginNew
<1>2. f = [header |-> f.header, unit |-> f.unit, commit |-> f.commit] /\ f.commit \in Commits
      /\ f.header \in Transactions \cup {Blank, Torn}
  BY <1>1, ImageFields
<1>3. t \in Transactions /\ t.bank = b /\ t.plan.base = BundleOf(Active(Known))
  <2>1. BundleOf(Active(Known)).gen \in 0 .. MaxGeneration
    <3>1. BundleOf(Active(Known)).gen \in Nat
      BY <1>1, TransactionFields DEF BundleOf, NoBundle
    <3>2. plan.base.gen < MaxGeneration
      BY DEF BeginNew
    <3> QED
      BY <1>1, <3>1, <3>2, SoundBanksAssumption
  <2>2. BundleOf(Active(Known)) \in Bundles
    BY <1>1, <2>1, TransactionFields DEF BundleOf, NoBundle, Bundles
  <2>3. plan \in Plans
    BY <2>2 DEF Plans
  <2> QED
    BY <1>1, <2>3 DEF Transaction, Transactions
<1>4. fast \in [known : BOOLEAN, of : Transactions \cup {None}]
      /\ (scanned /\ fast.known => fast.of = Active(Known))
  BY <1>1, KnownIsFound DEF SoundInv, TypeOK, RamInv
\* The commit sector.
<1>5. CASE \E c \in ErasedCommit(f.commit) :
             LET g == [f EXCEPT !.commit = c]
             IN  \/ PowerLoss(b, g)
                 \/ /\ SetBank(b, g) /\ Forget
                    /\ UNCHANGED <<update, complete, lease, wear>>
  <2>1. PICK c \in ErasedCommit(f.commit) :
             LET g == [f EXCEPT !.commit = c]
             IN  \/ PowerLoss(b, g)
                 \/ /\ SetBank(b, g) /\ Forget
                    /\ UNCHANGED <<update, complete, lease, wear>>
    BY <1>5
  <2> DEFINE g == [f EXCEPT !.commit = c]
  <2>2. g = [header |-> f.header, unit |-> f.unit, commit |-> c]
    BY <1>2
  <2>3. c \in Commits /\ (c # Blank /\ c.whole => c = f.commit)
    BY <1>2, EraseFields
  <2>4. g \in Images
    BY <1>1, <2>2, <2>3, ImageFields DEF Images
  <2>5. Committed(g) => g = f
    BY <1>2, <2>2, <2>3 DEF Committed
  <2>6. Proper(b, g)
    BY <1>1, <2>2, <2>5 DEF Proper, Staged
  <2>7. Found(g) \in {None, Found(f)}
    <3>1. CASE Committed(g)
      BY <2>5, <3>1
    <3>2. CASE ~Committed(g)
      BY <3>2 DEF Found
    <3> QED
      BY <3>1, <3>2
  <2>8. SetBank(b, g)
    BY <2>1 DEF PowerLoss
  <2>9. Replaces
    BY <1>1, <2>4, <2>6, <2>7, <2>8, TargetErased DEF SoundInv
  <2>10. SoundInv'
    BY <1>1, <2>1, <2>4, <2>6, PowerLossKeeps, ForgetKeeps
  <2> QED
    BY <2>9, <2>10
\* The rest of the bank.
<1>6. CASE \E h \in ErasedHeader(f.header), us \in ErasedUnits(f) :
             LET g == [header |-> h, unit |-> us, commit |-> Blank]
             IN  \/ PowerLoss(b, g)
                 \/ /\ SetBank(b, g)
                    /\ scanned' = TRUE
                    /\ selection' = [Known EXCEPT ![b] = None]
                    /\ fast' = IF scanned THEN fast
                               ELSE [known |-> TRUE, of |-> Active(Known)]
                    /\ UNCHANGED <<update, complete, lease, wear>>
  <2>1. PICK h \in ErasedHeader(f.header), us \in ErasedUnits(f) :
             LET g == [header |-> h, unit |-> us, commit |-> Blank]
             IN  \/ PowerLoss(b, g)
                 \/ /\ SetBank(b, g)
                    /\ scanned' = TRUE
                    /\ selection' = [Known EXCEPT ![b] = None]
                    /\ fast' = IF scanned THEN fast
                               ELSE [known |-> TRUE, of |-> Active(Known)]
                    /\ UNCHANGED <<update, complete, lease, wear>>
    BY <1>6
  <2> DEFINE g == [header |-> h, unit |-> us, commit |-> Blank]
  <2>3. h \in {f.header, Blank, Torn} /\ us \in [Units -> Contents \cup {Blank, Torn}]
    BY DEF ErasedHeader, ErasedUnits
  <2>4. g \in Images
    BY <1>2, <2>3 DEF Images, Commits
  <2>5. Proper(b, g) /\ ~Committed(g) /\ Found(g) = None
    BY <1>1, <2>3 DEF Proper, Committed, Staged, Found
  <2>6. CASE PowerLoss(b, g)
    <3>1. Replaces
      BY <1>1, <2>4, <2>5, <2>6, TargetErased DEF SoundInv, PowerLoss
    <3> QED
      BY <1>1, <2>4, <2>5, <2>6, <3>1, PowerLossKeeps
  <2>7. CASE /\ SetBank(b, g)
             /\ scanned' = TRUE
             /\ selection' = [Known EXCEPT ![b] = None]
             /\ fast' = IF scanned THEN fast
                        ELSE [known |-> TRUE, of |-> Active(Known)]
             /\ UNCHANGED <<update, complete, lease, wear>>
    <3>1. fast' \in [known : BOOLEAN, of : Transactions \cup {None}]
          /\ (fast'.known => fast'.of = Active(Known))
      BY <1>1, <1>4, <2>7
    <3>2. update' = None /\ complete' = {}
      BY <1>1, <2>7 DEF SoundInv, TypeOK
    <3> QED
      BY <1>1, <2>4, <2>5, <2>7, <3>1, <3>2, ErasedKeeps
  <2> QED
    BY <2>1, <2>6, <2>7
\* The header.
<1>7. CASE \E h \in {Blank, Torn, begun.header}, ok \in BOOLEAN :
             LET g == [BlankBank EXCEPT !.header = h]
             IN  \/ PowerLoss(b, g)
                 \/ /\ ok => h = begun.header
                    /\ SetBank(b, g)
                    /\ scanned' = TRUE
                    /\ selection' = [Known EXCEPT ![b] = None]
                    /\ fast' = IF scanned THEN fast
                               ELSE [known |-> TRUE, of |-> Active(Known)]
                    /\ update' = IF ok THEN begun.header ELSE None
                    /\ complete' = {}
                    /\ UNCHANGED <<lease, wear>>
  <2>0. begun.header = t
    BY DEF BlankBank
  <2>1. PICK h \in {Blank, Torn, t}, ok \in BOOLEAN :
             LET g == [BlankBank EXCEPT !.header = h]
             IN  \/ PowerLoss(b, g)
                 \/ /\ ok => h = t
                    /\ SetBank(b, g)
                    /\ scanned' = TRUE
                    /\ selection' = [Known EXCEPT ![b] = None]
                    /\ fast' = IF scanned THEN fast
                               ELSE [known |-> TRUE, of |-> Active(Known)]
                    /\ update' = IF ok THEN t ELSE None
                    /\ complete' = {}
                    /\ UNCHANGED <<lease, wear>>
    BY <1>7, <2>0
  <2> DEFINE g == [BlankBank EXCEPT !.header = h]
  <2>2. g \in Images /\ Proper(b, g) /\ ~Committed(g) /\ Found(g) = None
    BY <1>1, <1>3, BlankIsProper DEF Found
  <2>3. CASE PowerLoss(b, g)
    <3>1. Replaces
      BY <1>1, <2>2, <2>3, TargetErased DEF SoundInv, PowerLoss
    <3> QED
      BY <1>1, <2>2, <2>3, <3>1, PowerLossKeeps
  <2>4. CASE /\ SetBank(b, g)
             /\ scanned' = TRUE
             /\ selection' = [Known EXCEPT ![b] = None]
             /\ fast' = IF scanned THEN fast
                        ELSE [known |-> TRUE, of |-> Active(Known)]
             /\ update' = IF ok THEN t ELSE None
             /\ complete' = {}
             /\ UNCHANGED <<lease, wear>>
    <3>1. fast' \in [known : BOOLEAN, of : Transactions \cup {None}]
          /\ (fast'.known => fast'.of = Active(Known))
      BY <1>1, <1>4, <2>4
    <3>2. update' # None => update' = t
      BY <2>4
    <3> QED
      BY <1>1, <1>3, <2>2, <2>4, <3>1, <3>2, ErasedKeeps
  <2> QED
    BY <2>1, <2>3, <2>4
<1> QED
  BY <1>5, <1>6, <1>7 DEF BeginNew

LEMMA LoadKeeps ==
  ASSUME SoundInv, update = None, NEW t \in Transactions, Known[t.bank] = None, Load(t)
  PROVE  SoundInv' /\ Replaces
<1>1. /\ Known = Strict(flash) /\ Seen = Strict(flash) /\ Strict(flash) \in Selections
      /\ t.bank \in Banks /\ t # None
  BY KnownIsFound, ScanFinds, TransactionFields DEF SoundInv
<1>2. update' = t /\ flash' = flash /\ lease' = lease /\ wear' = wear
  BY DEF Load
<1>3. Strict(flash') = Strict(flash)
  BY <1>2
<1>4. Seen' = Seen
  <2>1. Seen' = [x \in Banks |-> IF t.bank = x THEN None ELSE Strict(flash)[x]]
    BY <1>1, <1>2 DEF Seen
  <2>2. \A x \in Banks : (IF t.bank = x THEN None ELSE Strict(flash)[x]) = Strict(flash)[x]
    BY <1>1
  <2>3. Seen' = [x \in Banks |-> Strict(flash)[x]]
    BY <2>1, <2>2
  <2> QED
    BY <1>1, <2>3 DEF Selections
<1>5. ~Committed(flash[t.bank])
  <2>1. Found(flash[t.bank]) = None
    BY <1>1, ScanFinds DEF SoundInv
  <2>2. flash[t.bank] \in Images
    BY <1>1 DEF SoundInv, TypeOK
  <2>3. Committed(flash[t.bank]) => flash[t.bank].commit.of # None
    BY <2>2, ImageFields, TransactionFields
  <2> QED
    BY <2>1, <2>3 DEF Found
<1>6. /\ scanned' \in BOOLEAN /\ selection' \in Selections
      /\ fast' \in [known : BOOLEAN, of : Transactions \cup {None}]
      /\ scanned' => selection' = Seen
      /\ fast'.known => fast'.of = Active(Seen)
  <2>1. CASE scanned
    BY <1>1, <2>1 DEF Load, ScanIfNeeded, SoundInv, TypeOK, RamInv, Selections
  <2>2. CASE ~scanned
    <3>1. Active(Strict(flash)) \in Transactions \cup {None}
      BY <1>1, ActiveIsOne
    <3> QED
      <4>1. /\ scanned' = TRUE /\ selection' = Strict(flash)
            /\ fast' = [known |-> TRUE, of |-> Active(Strict(flash))]
        BY <1>1, <2>2 DEF Load, ScanIfNeeded, Publish
      <4>2. fast' \in [known : BOOLEAN, of : Transactions \cup {None}] /\ fast'.of = Active(Strict(flash))
        BY <3>1, <4>1
      <4> QED
        BY <1>1, <4>1, <4>2
  <2> QED
    BY <2>1, <2>2
<1>7. TypeOK'
  <2>1. complete' \in SUBSET Units
    BY DEF Load
  <2> QED
    BY <1>1, <1>2, <1>6, <2>1 DEF SoundInv, TypeOK, Selections
<1>8. FlashInv'
  BY <1>2 DEF SoundInv, FlashInv
<1>9. UpdateInv'
  BY <1>1, <1>2, <1>4, <1>5 DEF UpdateInv, Load
<1>10. RamInv'
  BY <1>2, <1>4, <1>6 DEF SoundInv, RamInv
<1> QED
  BY <1>2, <1>7, <1>8, <1>9, <1>10 DEF SoundInv, Replaces, Shown

LEMMA BeginStagedKeeps ==
  ASSUME SoundInv, NEW c0 \in Contents, NEW plan, BeginStaged(plan)
  PROVE  SoundInv' /\ Replaces
<1> DEFINE b == Target(Known)
           t == Transaction(b, plan)
<1>1. /\ update = None /\ Known \in Selections /\ b \in Banks /\ flash[b] \in Images
  BY MayBeginMeans DEF BeginStaged
<1>2. Known[b] = None
  BY DEF BeginStaged, Reclaimable
<1>3. t.bank = b /\ Load(t)
  BY DEF BeginStaged, Transaction
<1>4. flash[b].header = t /\ flash[b].header \notin {Blank, Torn}
  BY <1>3 DEF BeginStaged, Staged, Load
<1>5. t \in Transactions
  BY <1>1, <1>4, ImageFields
<1> QED
  BY <1>1, <1>2, <1>3, <1>5, LoadKeeps

LEMMA ResumeKeeps ==
  ASSUME SoundInv, NEW b \in Banks, ResumeUpdate(b)
  PROVE  SoundInv' /\ Replaces
<1>1. flash[b] \in Images /\ Proper(b, flash[b]) /\ Staged(flash[b])
  BY DEF SoundInv, TypeOK, FlashInv, ResumeUpdate
<1>2. flash[b].header \in Transactions /\ flash[b].header.bank = b
  BY <1>1, ImageFields DEF Proper, Staged
<1> QED
  BY <1>2, LoadKeeps DEF ResumeUpdate

LEMMA DiscardKeeps ==
  ASSUME SoundInv, NEW plan, DiscardInvalidStaging(plan)
  PROVE  SoundInv' /\ Replaces
<1> DEFINE b == Target(Known)
           f == flash[b]
<1>1. /\ MayBegin(plan) /\ update = None /\ Known = Strict(flash) /\ ~SplitBrain(Known)
      /\ b \in Banks /\ ~Pinned(b) /\ f \in Images /\ Proper(b, f)
  BY MayBeginMeans DEF DiscardInvalidStaging
<1>2. f.commit \in Commits /\ f.header = Torn /\ Known[b] = None
  BY <1>1, ImageFields DEF DiscardInvalidStaging
<1>3. ~Committed(f)
  <2>1. Found(f) = None
    BY <1>1, <1>2, ScanFinds DEF SoundInv
  <2>2. Committed(f) => f.commit.of # None
    BY <1>1, ImageFields, TransactionFields
  <2> QED
    BY <2>1, <2>2 DEF Found
<1>4. CASE \E h \in ErasedHeader(f.header), us \in ErasedUnits(f), c \in ErasedCommit(f.commit) :
             LET g == [header |-> h, unit |-> us, commit |-> c]
             IN  \/ PowerLoss(b, g)
                 \/ /\ SetBank(b, g) /\ Forget
                    /\ UNCHANGED <<update, complete, lease, wear>>
  <2>1. PICK h \in ErasedHeader(f.header), us \in ErasedUnits(f), c \in ErasedCommit(f.commit) :
             LET g == [header |-> h, unit |-> us, commit |-> c]
             IN  \/ PowerLoss(b, g)
                 \/ /\ SetBank(b, g) /\ Forget
                    /\ UNCHANGED <<update, complete, lease, wear>>
    BY <1>4
  <2> DEFINE g == [header |-> h, unit |-> us, commit |-> c]
  <2>2. h \in {Blank, Torn} /\ us \in [Units -> Contents \cup {Blank, Torn}]
    BY <1>2 DEF ErasedHeader, ErasedUnits
  <2>3. c \in Commits /\ (c # Blank /\ c.whole => c = f.commit)
    BY <1>2, EraseFields
  <2>4. g \in Images
    BY <2>2, <2>3 DEF Images
  <2>5. ~Committed(g)
    BY <1>3, <2>3 DEF Committed
  <2>6. Proper(b, g) /\ Found(g) = None
    BY <2>2, <2>5 DEF Proper, Staged, Found
  <2>7. SetBank(b, g)
    BY <2>1 DEF PowerLoss
  <2>8. Replaces
    BY <1>1, <2>4, <2>6, <2>7, TargetErased DEF SoundInv
  <2>9. SoundInv'
    BY <1>1, <2>1, <2>4, <2>6, PowerLossKeeps, ForgetKeeps
  <2> QED
    BY <2>8, <2>9
<1>5. CASE /\ SetBank(b, BlankBank)
           /\ scanned' = TRUE
           /\ selection' = [Known EXCEPT ![b] = None]
           /\ fast' = Unread
           /\ UNCHANGED <<update, complete, lease, wear>>
  <2>1. [BlankBank EXCEPT !.header = Blank] = BlankBank
    BY DEF BlankBank
  <2>2. BlankBank \in Images /\ Proper(b, BlankBank) /\ ~Committed(BlankBank)
    BY <1>1, <2>1, BlankIsProper
  <2>3. fast' \in [known : BOOLEAN, of : Transactions \cup {None}] /\ ~fast'.known
    BY <1>5 DEF Unread
  <2>4. update' = None /\ complete' = {}
    BY <1>1, <1>5 DEF SoundInv, TypeOK
  <2> QED
    BY <1>1, <1>5, <2>2, <2>3, <2>4, ErasedKeeps
<1> QED
  BY <1>4, <1>5 DEF DiscardInvalidStaging

-----------------------------------------------------------------------------
(* The open update. *)

\* Its bank changes behind the back of the RAM, which has not looked there.
LEMMA OpenKeeps ==
  ASSUME SoundInv, update # None, NEW g \in Images, Proper(update.bank, g),
         SetBank(update.bank, g), complete' \in SUBSET Units,
         Committed(g) => g.commit.of = update /\ complete' = Units,
         UNCHANGED <<scanned, selection, fast, update, lease, wear>>
  PROVE  SoundInv'
<1>1. update \in Transactions /\ update.bank \in Banks
  BY TransactionFields DEF SoundInv, TypeOK
<1>2. /\ flash' \in [Banks -> Images] /\ FlashInv' /\ flash'[update.bank] = g
      /\ Strict(flash') = [Strict(flash) EXCEPT ![update.bank] = Found(g)]
  BY <1>1, BankSet DEF SoundInv
<1>3. Strict(flash) \in Selections
  BY ScanFinds DEF SoundInv
<1>4. Seen' = Seen
  <2>1. Seen' = [x \in Banks |-> IF update.bank = x THEN None ELSE Strict(flash')[x]]
    BY DEF Seen
  <2>2. Seen = [x \in Banks |-> IF update.bank = x THEN None ELSE Strict(flash)[x]]
    BY DEF Seen
  <2>3. \A x \in Banks : (IF update.bank = x THEN None ELSE Strict(flash')[x])
                           = IF update.bank = x THEN None ELSE Strict(flash)[x]
    BY <1>2, <1>3 DEF Selections
  <2> QED
    BY <2>1, <2>2, <2>3
<1>5. TypeOK'
  BY <1>2 DEF SoundInv, TypeOK
<1>6. UpdateInv'
  BY <1>2, <1>4 DEF SoundInv, UpdateInv
<1>7. RamInv'
  BY <1>4 DEF SoundInv, RamInv
<1> QED
  BY <1>2, <1>5, <1>6, <1>7 DEF SoundInv

\* A unit is only written while the marker is not in place.
LEMMA UnitKeeps ==
  ASSUME SoundInv, update # None, ~Committed(flash[update.bank]),
         NEW u \in Units, NEW v \in Rewritten(u), SetBank(update.bank, WithUnit(u, v))
  PROVE  /\ WithUnit(u, v) \in Images /\ Proper(update.bank, WithUnit(u, v))
         /\ ~Committed(WithUnit(u, v))
         /\ Replaces
<1> DEFINE f == flash[update.bank]
           g == WithUnit(u, v)
<1>1. /\ update.bank \in Banks /\ update.plan.content \in Contents
      /\ f \in Images /\ Proper(update.bank, f)
  BY TransactionFields DEF SoundInv, TypeOK, FlashInv
<1>2. f = [header |-> f.header, unit |-> f.unit, commit |-> f.commit]
      /\ f.header \in Transactions \cup {Blank, Torn}
      /\ f.unit \in [Units -> Contents \cup {Blank, Torn}] /\ f.commit \in Commits
  BY <1>1, ImageFields
<1>3. g = [header |-> f.header, unit |-> [f.unit EXCEPT ![u] = v], commit |-> f.commit]
  BY <1>2 DEF WithUnit
<1>4. v \in Contents \cup {Blank, Torn}
  BY <1>1, <1>2 DEF Rewritten
<1>5. [f.unit EXCEPT ![u] = v] \in [Units -> Contents \cup {Blank, Torn}]
  BY <1>2, <1>4
<1>6. g \in Images
  BY <1>2, <1>3, <1>5 DEF Images
<1>7. ~Committed(g)
  BY <1>3 DEF Committed
<1>8. Proper(update.bank, g)
  BY <1>1, <1>3, <1>7 DEF Proper, Staged
<1>9. Found(g) = Found(f)
  BY <1>7 DEF Found
<1> QED
  BY <1>1, <1>6, <1>7, <1>8, <1>9, SameFound DEF SoundInv

\* A unit that does not verify, or is not complete, tells that the marker is not in place.
LEMMA IncompleteIsUncommitted ==
  ASSUME SoundInv, update # None, NEW u \in Units,
         u \notin complete \/ ~Verified(flash[update.bank], update, u)
  PROVE  ~Committed(flash[update.bank])
<1>1. update.bank \in Banks
  BY TransactionFields DEF SoundInv, TypeOK
<1>2. Committed(flash[update.bank]) =>
        flash[update.bank].commit.of = update /\ complete = Units
        /\ ValidBank(flash[update.bank])
  BY <1>1 DEF SoundInv, UpdateInv, FlashInv, Proper
<1> QED
  BY <1>2 DEF ValidBank

LEMMA WriteManifestKeeps ==
  ASSUME SoundInv, WriteManifest
  PROVE  SoundInv' /\ Replaces
<1>1. 0 \in Units
  BY SoundBanksAssumption DEF Units
<1>2. update # None /\ ~Committed(flash[update.bank])
  BY <1>1, IncompleteIsUncommitted DEF WriteManifest
<1>3. update.bank \in Banks /\ complete \in SUBSET Units
  BY <1>2, TransactionFields DEF SoundInv, TypeOK
<1>4. PICK v \in Rewritten(0), ok \in BOOLEAN :
       \/ PowerLoss(update.bank, WithUnit(0, v))
       \/ /\ SetBank(update.bank, WithUnit(0, v))
          /\ complete' = IF ok THEN complete \cup {0} ELSE complete \ {0}
          /\ UNCHANGED <<scanned, selection, fast, update, lease, wear>>
  BY DEF WriteManifest
<1>5. SetBank(update.bank, WithUnit(0, v))
  BY <1>4 DEF PowerLoss
<1>6. /\ WithUnit(0, v) \in Images /\ Proper(update.bank, WithUnit(0, v))
      /\ ~Committed(WithUnit(0, v)) /\ Replaces
  BY <1>1, <1>2, <1>5, UnitKeeps
<1>7. CASE PowerLoss(update.bank, WithUnit(0, v))
  BY <1>3, <1>6, <1>7, PowerLossKeeps
<1>8. CASE /\ SetBank(update.bank, WithUnit(0, v))
           /\ complete' = IF ok THEN complete \cup {0} ELSE complete \ {0}
           /\ UNCHANGED <<scanned, selection, fast, update, lease, wear>>
  <2>1. complete' \in SUBSET Units
    BY <1>1, <1>3, <1>8
  <2> QED
    BY <1>2, <1>6, <1>8, <2>1, OpenKeeps
<1> QED
  BY <1>4, <1>7, <1>8

LEMMA WritePayloadBlockKeeps ==
  ASSUME SoundInv, NEW u \in Units, WritePayloadBlock(u)
  PROVE  SoundInv' /\ Replaces
<1>1. update # None /\ ~Committed(flash[update.bank])
  BY IncompleteIsUncommitted DEF WritePayloadBlock
<1>2. update.bank \in Banks /\ complete \in SUBSET Units
  BY <1>1, TransactionFields DEF SoundInv, TypeOK
<1>3. CASE /\ complete' = complete \ {u}
           /\ UNCHANGED <<flash, scanned, selection, fast, update, lease, wear>>
  <2> DEFINE f == flash[update.bank]
  <2>1. f \in Images /\ Proper(update.bank, f) /\ SetBank(update.bank, f)
    BY <1>2, <1>3 DEF SoundInv, TypeOK, FlashInv, SetBank
  <2>2. SoundInv'
    BY <1>1, <1>2, <1>3, <2>1, OpenKeeps
  <2>3. Replaces
    BY <1>3 DEF Replaces, Shown
  <2> QED
    BY <2>2, <2>3
<1>4. CASE \E v \in Rewritten(u), ok \in BOOLEAN :
             \/ PowerLoss(update.bank, WithUnit(u, v))
             \/ /\ SetBank(update.bank, WithUnit(u, v))
                /\ complete' = IF ok THEN complete \cup {u} ELSE complete
                /\ UNCHANGED <<scanned, selection, fast, update, lease, wear>>
  <2>1. PICK v \in Rewritten(u), ok \in BOOLEAN :
             \/ PowerLoss(update.bank, WithUnit(u, v))
             \/ /\ SetBank(update.bank, WithUnit(u, v))
                /\ complete' = IF ok THEN complete \cup {u} ELSE complete
                /\ UNCHANGED <<scanned, selection, fast, update, lease, wear>>
    BY <1>4
  <2>2. SetBank(update.bank, WithUnit(u, v))
    BY <2>1 DEF PowerLoss
  <2>3. /\ WithUnit(u, v) \in Images /\ Proper(update.bank, WithUnit(u, v))
        /\ ~Committed(WithUnit(u, v)) /\ Replaces
    BY <1>1, <2>2, UnitKeeps
  <2>4. CASE PowerLoss(update.bank, WithUnit(u, v))
    BY <1>2, <2>3, <2>4, PowerLossKeeps
  <2>5. CASE /\ SetBank(update.bank, WithUnit(u, v))
             /\ complete' = IF ok THEN complete \cup {u} ELSE complete
             /\ UNCHANGED <<scanned, selection, fast, update, lease, wear>>
    <3>1. complete' \in SUBSET Units
      BY <1>2, <2>5
    <3> QED
      BY <1>1, <2>3, <2>5, <3>1, OpenKeeps
  <2> QED
    BY <2>1, <2>4, <2>5
<1> QED
  BY <1>3, <1>4 DEF WritePayloadBlock

Records == [of : Transactions, whole : BOOLEAN]

LEMMA Unmarked ==
  ASSUME NEW c \in Records
  PROVE  [c EXCEPT !.whole = FALSE] \in Records /\ [c EXCEPT !.whole = FALSE].whole = FALSE
BY DEF Records

\* A marker in place after programming is the one of the update.
LEMMA ProgramFields ==
  ASSUME NEW c \in Commits, NEW t \in Transactions
  PROVE  /\ Programmed(c, t) \in Commits /\ HalfProgrammed(c, t) \in Commits
         /\ Programmed(c, t).whole => Programmed(c, t) = [of |-> t, whole |-> TRUE]
         /\ HalfProgrammed(c, t).whole => HalfProgrammed(c, t) = [of |-> t, whole |-> TRUE]
<1> DEFINE r == [of |-> t, whole |-> TRUE]
<1>1. r \in Records
  BY DEF Records
<1>2. c # Blank => c \in Records
  BY DEF Commits, Records
<1>3. Programmed(c, t) \in Records
      /\ (Programmed(c, t).whole => Programmed(c, t) = r)
  <2>1. CASE c = Blank \/ c.of = t
    BY <1>1, <2>1 DEF Programmed
  <2>2. CASE ~(c = Blank \/ c.of = t)
    <3>1. Programmed(c, t) = [c EXCEPT !.whole = FALSE]
      BY <2>2 DEF Programmed
    <3> QED
      BY <1>2, <2>2, <3>1, Unmarked
  <2> QED
    BY <2>1, <2>2
<1>4. HalfProgrammed(c, t) \in Records
      /\ (HalfProgrammed(c, t).whole => HalfProgrammed(c, t) = r)
  <2>1. CASE c = r
    BY <1>1, <2>1 DEF HalfProgrammed
  <2>2. CASE c # r
    <3>1. HalfProgrammed(c, t) = [Programmed(c, t) EXCEPT !.whole = FALSE]
      BY <2>2 DEF HalfProgrammed
    <3> QED
      BY <1>3, <3>1, Unmarked
  <2> QED
    BY <2>1, <2>2
<1> QED
  BY <1>3, <1>4 DEF Commits, Records

LEMMA ProgramAgain ==
  ASSUME NEW c \in Commits, NEW t \in Transactions, c # Blank, c.whole, c.of = t
  PROVE  Programmed(c, t) = c /\ HalfProgrammed(c, t) = c
<1>1. c \in Records
  BY DEF Commits, Records
<1>2. c = [of |-> t, whole |-> TRUE]
  <2>1. c.whole = TRUE
    BY <1>1 DEF Records
  <2> QED
    BY <1>1, <2>1 DEF Records
<1> QED
  BY <1>2 DEF Programmed, HalfProgrammed

LEMMA MarkedFields ==
  ASSUME SoundInv, update # None, NEW n \in 0..NBlocks, Careful => 0 \in complete
  PROVE  /\ Marked(n) \in SUBSET Units /\ complete \subseteq Marked(n)
         /\ n = NBlocks => Marked(n) = Units
<1>1. NBlocks \in Nat /\ complete \in SUBSET Units /\ 0 \in complete
  BY SoundBanksAssumption DEF SoundInv, TypeOK
<1>2. n \in Nat /\ n <= NBlocks
  BY <1>1
<1>3. \A u \in 1..n : u \in Units
  BY <1>1, <1>2 DEF Units
<1>4. \A u \in Units : u = 0 \/ u \in 1..NBlocks
  BY <1>1 DEF Units
<1>5. Marked(n) \in SUBSET Units /\ complete \subseteq Marked(n)
  BY <1>1, <1>3 DEF Marked
<1>6. ASSUME n = NBlocks PROVE Marked(n) = Units
  <2>1. \A u \in Units : u \in Marked(n)
    BY <1>1, <1>4, <1>6 DEF Marked
  <2> QED
    BY <1>5, <2>1
<1> QED
  BY <1>5, <1>6

\* A commit that stops at a block unmarks at most a unit that does not verify.
LEMMA RefusedKeeps ==
  ASSUME SoundInv, NEW n \in Units, CommitRefused(n)
  PROVE  SoundInv' /\ Replaces
<1> DEFINE f == flash[update.bank]
<1>1. /\ update # None /\ update.bank \in Banks
      /\ complete \in SUBSET Units /\ n \in 0..NBlocks /\ n + 1 \in Units
      /\ UNCHANGED <<flash, scanned, selection, fast, update, lease, wear>>
  BY TransactionFields, SoundBanksAssumption DEF CommitRefused, SoundInv, TypeOK, Units
<1>2. Marked(n) \in SUBSET Units /\ complete \subseteq Marked(n)
  BY <1>1, MarkedFields DEF CommitRefused
<1>3. Committed(f) => f.commit.of = update /\ complete = Units /\ Verified(f, update, n + 1)
  <2>1. Committed(f) => f.commit.of = update /\ complete = Units
    BY <1>1 DEF SoundInv, UpdateInv
  <2> QED
    BY <1>1, <2>1, IncompleteIsUncommitted
<1>4. /\ complete' \in SUBSET Units
      /\ Committed(f) => complete' = Units
  BY <1>1, <1>2, <1>3 DEF CommitRefused
<1>5. f \in Images /\ Proper(update.bank, f) /\ SetBank(update.bank, f)
  BY <1>1 DEF SoundInv, TypeOK, FlashInv, SetBank
<1>6. SoundInv'
  BY <1>1, <1>3, <1>4, <1>5, OpenKeeps
<1>7. Replaces
  BY <1>1 DEF Replaces, Shown
<1> QED
  BY <1>6, <1>7

LEMMA CommitKeeps ==
  ASSUME SoundInv, CommitUpdate
  PROVE  SoundInv' /\ Replaces
<1> DEFINE b == update.bank
           f == flash[b]
           done == [f EXCEPT !.commit = Programmed(f.commit, update)]
           half == [f EXCEPT !.commit = HalfProgrammed(@, update)]
           truth == Strict([flash EXCEPT ![b] = done])
<1>1. /\ update # None /\ update \in Transactions /\ b \in Banks
      /\ f \in Images /\ Proper(b, f)
  BY TransactionFields DEF CommitUpdate, SoundInv, TypeOK, FlashInv
<1>2. Marked(NBlocks) = Units /\ \A u \in Units : Verified(f, update, u)
  BY <1>1, MarkedFields, SoundBanksAssumption DEF CommitUpdate, SoundInv
<1>3. f = [header |-> f.header, unit |-> f.unit, commit |-> f.commit]
      /\ f.header \in Transactions \cup {Blank, Torn}
      /\ f.unit \in [Units -> Contents \cup {Blank, Torn}] /\ f.commit \in Commits
  BY <1>1, ImageFields
<1>4. ASSUME NEW c \in Commits, c.whole => c = [of |-> update, whole |-> TRUE]
      PROVE  /\ [f EXCEPT !.commit = c] \in Images /\ Proper(b, [f EXCEPT !.commit = c])
             /\ Committed([f EXCEPT !.commit = c]) =>
                  [f EXCEPT !.commit = c].commit.of = update
  <2> DEFINE g == [f EXCEPT !.commit = c]
  <2>1. g = [header |-> f.header, unit |-> f.unit, commit |-> c]
    BY <1>3
  <2>2. g \in Images
    BY <1>3, <2>1 DEF Images
  <2>3. Committed(g) => c = [of |-> update, whole |-> TRUE]
    BY <1>4, <2>1 DEF Committed
  <2>4. Committed(g) => ValidBank(g) /\ g.commit.of = update
    <3>1. \A u \in Units : Verified(g, update, u)
      BY <1>2, <2>1 DEF Verified
    <3> QED
      BY <2>1, <2>3, <3>1 DEF ValidBank
  <2>5. Proper(b, g)
    BY <1>1, <2>1, <2>4 DEF Proper, Staged
  <2> QED
    BY <2>2, <2>4, <2>5
<1>5. /\ f \in Images /\ Proper(b, f)
      /\ Committed(f) => f.commit.of = update
  BY <1>1 DEF SoundInv, UpdateInv
<1>6. /\ done \in Images /\ Proper(b, done)
      /\ Committed(done) => done.commit.of = update
  BY <1>1, <1>3, <1>4, ProgramFields
<1>7. /\ half \in Images /\ Proper(b, half)
      /\ Committed(half) => half.commit.of = update
  BY <1>1, <1>3, <1>4, ProgramFields
<1>8. CASE \E g \in {f, done, half} :
             \/ PowerLoss(b, g)
             \/ /\ SetBank(b, g)
                /\ complete' = Marked(NBlocks)
                /\ UNCHANGED <<scanned, selection, fast, update, lease, wear>>
  <2>1. PICK g \in {f, done, half} :
             \/ PowerLoss(b, g)
             \/ /\ SetBank(b, g)
                /\ complete' = Marked(NBlocks)
                /\ UNCHANGED <<scanned, selection, fast, update, lease, wear>>
    BY <1>8
  <2>2. /\ g \in Images /\ Proper(b, g) /\ SetBank(b, g)
        /\ Committed(g) => g.commit.of = update
    BY <1>5, <1>6, <1>7, <2>1 DEF PowerLoss
  <2>3. Replaces
    <3>1. CASE Found(g) = Found(f)
      BY <1>1, <2>2, <3>1, SameFound DEF SoundInv
    <3>2. CASE Found(g) # Found(f)
      <4>1. ~Committed(f)
        <5> SUFFICES ASSUME Committed(f) PROVE FALSE
          OBVIOUS
        <5>1. done.commit = f.commit /\ half.commit = f.commit
          <6>1. Programmed(f.commit, update) = f.commit /\ HalfProgrammed(f.commit, update) = f.commit
            BY <1>1, <1>3, <1>5, ProgramAgain DEF Committed
          <6> QED
            BY <1>3, <6>1
        <5>2. g.commit = f.commit
          BY <2>1, <5>1
        <5> QED
          BY <3>2, <5>2 DEF Found, Committed
      <4>2. Found(f) = None
        BY <4>1 DEF Found
      <4>3. Found(g) = update
        BY <2>2, <3>2, <4>2 DEF Found
      <4> QED
        BY <1>1, <2>2, <4>1, <4>3, MarkerPublishes
    <3> QED
      BY <3>1, <3>2
  <2>4. SoundInv'
    <3>1. CASE PowerLoss(b, g)
      BY <1>1, <2>2, <3>1, PowerLossKeeps
    <3>2. CASE /\ SetBank(b, g)
               /\ complete' = Marked(NBlocks)
               /\ UNCHANGED <<scanned, selection, fast, update, lease, wear>>
      BY <1>1, <1>2, <2>2, <3>2, OpenKeeps
    <3> QED
      BY <2>1, <3>1, <3>2
  <2> QED
    BY <2>3, <2>4
<1>9. CASE /\ ValidBank(done) /\ done.commit.of = update
           /\ Active(truth) = update
           /\ SetBank(b, done)
           /\ Publish(truth)
           /\ ClearUpdate
           /\ UNCHANGED <<lease, wear>>
  <2>1. Found(done) = update /\ flash' = [flash EXCEPT ![b] = done]
    BY <1>9 DEF Found, ValidBank, SetBank
  <2>2. flash' \in [Banks -> Images] /\ FlashInv'
    BY <1>1, <1>6, <1>9, BankSet DEF SoundInv
  <2>3. Strict(flash') = truth
    BY <2>1
  <2>4. Strict(flash') = [Seen EXCEPT ![b] = update] /\ Replaces
    <3>1. CASE Committed(f)
      <4>1. Found(f) = update
        BY <1>5, <3>1 DEF Found
      <4>2. Strict(flash') = Strict(flash) /\ Replaces
        BY <1>1, <1>6, <1>9, <2>1, <4>1, SameFound DEF SoundInv
      <4> QED
        BY <1>1, <3>1, <4>2, CommittedIsActive
    <3>2. CASE ~Committed(f)
      BY <1>1, <1>6, <1>9, <2>1, <3>2, MarkerPublishes
    <3> QED
      BY <3>1, <3>2
  <2> HIDE DEF truth
  <2> QED
    BY <1>1, <1>9, <2>2, <2>3, <2>4, ClosedKeeps
<1> QED
  BY <1>8, <1>9 DEF CommitUpdate

LEMMA AbortKeeps ==
  ASSUME SoundInv, AbortUpdate
  PROVE  SoundInv' /\ Replaces
<1> DEFINE b == update.bank
           f == flash[b]
           with(h) == [f EXCEPT !.header = h]
<1>1. /\ update # None /\ b \in Banks /\ f \in Images /\ Proper(b, f)
      /\ ValidBank(f) <=> Committed(f)
      /\ complete \in SUBSET Units
  BY TransactionFields DEF AbortUpdate, SoundInv, TypeOK, FlashInv, Proper, ValidBank
<1>2. f = [header |-> f.header, unit |-> f.unit, commit |-> f.commit]
      /\ f.header \in Transactions \cup {Blank, Torn}
      /\ f.unit \in [Units -> Contents \cup {Blank, Torn}] /\ f.commit \in Commits
  BY <1>1, ImageFields
\* The commit has landed.
<1>3. CASE /\ ValidBank(f)
           /\ Publish(Strict(flash))
           /\ ClearUpdate
           /\ UNCHANGED <<flash, lease, wear>>
  <2>1. Strict(flash) = [Seen EXCEPT ![b] = update]
    BY <1>1, <1>3, CommittedIsActive
  <2>2. flash' \in [Banks -> Images] /\ FlashInv' /\ Replaces
    BY <1>3 DEF SoundInv, TypeOK, FlashInv, Replaces, Shown
  <2>3. Strict(flash') = Strict(flash)
    BY <1>3
  <2> QED
    BY <1>1, <1>3, <2>1, <2>2, <2>3, ClosedKeeps
\* It has not, and the header is erased.
<1>4. ASSUME NEW h \in {f.header, Torn, Blank}, ~ValidBank(f), SetBank(b, with(h))
      PROVE  /\ with(h) \in Images /\ Proper(b, with(h)) /\ ~Committed(with(h))
             /\ Strict(flash') = Strict(flash) /\ Replaces
  <2>1. with(h) = [header |-> h, unit |-> f.unit, commit |-> f.commit]
    BY <1>2
  <2>2. with(h) \in Images
    BY <1>2, <2>1 DEF Images
  <2>3. ~Committed(with(h)) /\ ~Committed(f)
    BY <1>1, <1>4, <2>1 DEF Committed
  <2>4. Proper(b, with(h))
    BY <1>1, <2>1, <2>3 DEF Proper, Staged
  <2>5. Found(with(h)) = Found(f)
    BY <2>3 DEF Found
  <2> QED
    BY <1>1, <1>4, <2>2, <2>3, <2>4, <2>5, SameFound DEF SoundInv
<1>5. CASE /\ ~ValidBank(f)
           /\ \E h \in ErasedHeader(f.header) :
                \/ PowerLoss(b, with(h))
                \/ SetBank(b, with(h)) /\ UNCHANGED <<ram, wear>>
  <2>1. PICK h \in ErasedHeader(f.header) :
                \/ PowerLoss(b, with(h))
                \/ SetBank(b, with(h)) /\ UNCHANGED <<ram, wear>>
    BY <1>5
  <2>2. with(h) \in Images /\ Proper(b, with(h)) /\ ~Committed(with(h)) /\ Replaces
    BY <1>4, <1>5, <2>1 DEF PowerLoss, ErasedHeader
  <2>3. CASE PowerLoss(b, with(h))
    BY <1>1, <2>2, <2>3, PowerLossKeeps
  <2>4. CASE SetBank(b, with(h)) /\ UNCHANGED <<ram, wear>>
    <3>1. /\ UNCHANGED <<scanned, selection, fast, update, lease, wear>>
          /\ complete' \in SUBSET Units
      BY <1>1, <2>4 DEF ram
    <3> QED
      BY <1>1, <2>2, <2>4, <3>1, OpenKeeps
  <2> QED
    BY <2>1, <2>2, <2>3, <2>4
<1>6. CASE /\ ~ValidBank(f)
           /\ SetBank(b, with(Blank))
           /\ ClearUpdate
           /\ UNCHANGED <<scanned, selection, fast, lease, wear>>
  <2>1. /\ with(Blank) \in Images /\ Proper(b, with(Blank))
        /\ Strict(flash') = Strict(flash) /\ Replaces
    BY <1>4, <1>6
  <2>2. flash' \in [Banks -> Images] /\ FlashInv'
    BY <1>1, <1>6, <2>1, BankSet DEF SoundInv
  <2>3. Seen = Strict(flash)
    BY <1>1, <1>6, UncommittedIsUnseen
  <2>4. Seen' = Seen
    BY <1>6, <2>1, <2>3 DEF Seen, Strict, ClearUpdate
  <2>5. TypeOK'
    BY <1>6, <2>2 DEF SoundInv, TypeOK, ClearUpdate
  <2>6. UpdateInv' /\ RamInv'
    BY <1>6, <2>4 DEF SoundInv, UpdateInv, RamInv, ClearUpdate
  <2> QED
    BY <2>1, <2>2, <2>5, <2>6 DEF SoundInv
<1> QED
  BY <1>3, <1>5, <1>6 DEF AbortUpdate

-----------------------------------------------------------------------------
(* Readers and the environment. *)

LEMMA FastFinds ==
  ASSUME SoundInv
  PROVE  FastChoice = Active(Strict(flash))
<1> DEFINE records == [b \in Banks |-> IF Committed(flash[b]) THEN flash[b].commit.of ELSE None]
<1>1. /\ Strict(flash) \in Selections /\ Placed(Strict(flash)) /\ Readable(flash) = Strict(flash)
      /\ \A b \in Banks : Strict(flash)[b] = Found(flash[b])
  BY ScanFinds DEF SoundInv
<1>2. records = Strict(flash)
  BY <1>1 DEF Selections, Found
<1>3. FastChoice = IF Active(records) # None /\ ReadableBank(flash[Active(records).bank])
                   THEN Active(records) ELSE Active(Readable(flash))
  BY DEF FastChoice
<1> HIDE DEF records
<1> QED
  BY <1>1, <1>2, <1>3

LEMMA AcquireKeeps ==
  ASSUME SoundInv, NEW s \in Slots, AcquireActiveRead(s)
  PROVE  SoundInv' /\ Replaces
<1> DEFINE choice == Active(Seen)
<1>1. /\ Seen \in Selections /\ Placed(Seen) /\ choice \in Transactions \cup {None}
      /\ choice # None => Seen[choice.bank] = choice
  BY ScanFinds, ActiveIsOne DEF SoundInv
<1>2. (IF fast.known THEN fast.of ELSE FastChoice) = choice
  <2>1. CASE fast.known
    BY <2>1 DEF SoundInv, RamInv
  <2>2. CASE ~fast.known
    BY <2>2, KnownIsFound, FastFinds DEF AcquireActiveRead
  <2> QED
    BY <2>1, <2>2
<1>3. /\ lease' = [lease EXCEPT ![s] = choice]
      /\ fast' = [known |-> TRUE, of |-> choice]
      /\ UNCHANGED <<flash, scanned, selection, update, complete, wear>>
  BY <1>2 DEF AcquireActiveRead
<1> HIDE DEF choice
<1>4. fast' \in [known : BOOLEAN, of : Transactions \cup {None}] /\ fast'.of = choice
  BY <1>1, <1>3
<1>5. TypeOK'
  BY <1>1, <1>3, <1>4 DEF SoundInv, TypeOK
<1>6. Seen' = Seen
  BY <1>3 DEF Seen
<1>7. FlashInv' /\ UpdateInv'
  BY <1>3, <1>6 DEF SoundInv, FlashInv, UpdateInv
<1>8. RamInv'
  <2>1. fast'.of = Active(Seen)
    BY <1>4 DEF choice
  <2>2. ASSUME NEW x \in Slots, lease'[x] # None PROVE Seen[lease'[x].bank] = lease'[x]
    BY <1>1, <1>3, <2>2 DEF SoundInv, TypeOK, RamInv
  <2> QED
    BY <1>3, <1>6, <2>1, <2>2 DEF SoundInv, RamInv
<1> QED
  BY <1>3, <1>5, <1>7, <1>8 DEF SoundInv, Replaces, Shown

LEMMA ReleaseKeeps ==
  ASSUME SoundInv, NEW s \in Slots, ReleaseRead(s)
  PROVE  SoundInv' /\ Replaces
<1>1. /\ lease' = [lease EXCEPT ![s] = None]
      /\ UNCHANGED <<flash, scanned, selection, fast, update, complete, wear>>
  BY DEF ReleaseRead
<1>2. Seen' = Seen
  BY <1>1 DEF Seen
<1>3. TypeOK'
  BY <1>1 DEF SoundInv, TypeOK
<1>4. FlashInv' /\ UpdateInv'
  BY <1>1, <1>2 DEF SoundInv, FlashInv, UpdateInv
<1>5. RamInv'
  BY <1>1, <1>2 DEF SoundInv, TypeOK, RamInv
<1> QED
  BY <1>1, <1>3, <1>4, <1>5 DEF SoundInv, Replaces, Shown

LEMMA PowerCycleKeeps ==
  ASSUME SoundInv, PowerCycle
  PROVE  SoundInv' /\ Replaces
<1>1. flash' = flash /\ Reboot /\ UNCHANGED wear
  BY DEF PowerCycle
<1>2. flash' \in [Banks -> Images] /\ FlashInv'
  BY <1>1 DEF SoundInv, TypeOK, FlashInv
<1> QED
  BY <1>1, <1>2, RebootKeeps DEF Replaces, Shown

LEMMA DecayKeeps ==
  ASSUME SoundInv, NEW b \in Banks, NEW u \in Units, Decay(b, u)
  PROVE  SoundInv' /\ Replaces
<1> DEFINE f == flash[b]
           g == [f EXCEPT !.unit[u] = Torn]
<1>1. f \in Images /\ Proper(b, f) /\ SetBank(b, g) /\ UNCHANGED ram /\ f.commit = Blank
  BY DEF SoundInv, TypeOK, FlashInv, Decay
<1>2. f = [header |-> f.header, unit |-> f.unit, commit |-> f.commit]
      /\ f.header \in Transactions \cup {Blank, Torn}
      /\ f.unit \in [Units -> Contents \cup {Blank, Torn}]
  BY <1>1, ImageFields
<1>3. g = [header |-> f.header, unit |-> [f.unit EXCEPT ![u] = Torn], commit |-> Blank]
  BY <1>1, <1>2
<1>4. g \in Images
  BY <1>2, <1>3 DEF Images, Commits
<1>5. ~Committed(g) /\ ~Committed(f) /\ Found(g) = Found(f)
  BY <1>1, <1>3 DEF Committed, Found
<1>6. Proper(b, g)
  BY <1>1, <1>3, <1>5 DEF Proper, Staged
<1> HIDE DEF g
<1>7. Strict(flash') = Strict(flash) /\ Replaces
  BY <1>1, <1>4, <1>5, <1>6, SameFound DEF SoundInv
<1>8. /\ flash' \in [Banks -> Images] /\ FlashInv' /\ flash'[b] = g
      /\ \A x \in Banks \ {b} : flash'[x] = flash[x]
  BY <1>1, <1>4, <1>6, BankSet DEF SoundInv
<1>9. UNCHANGED <<scanned, selection, fast, update, complete, lease>>
  BY <1>1 DEF ram
<1>10. Seen' = Seen
  BY <1>7, <1>9 DEF Seen
<1>11. wear' \in 0 .. MaxWear
  BY SoundBanksAssumption DEF SoundInv, TypeOK, Decay
<1>12. TypeOK'
  BY <1>8, <1>9, <1>11 DEF SoundInv, TypeOK
<1>13. UpdateInv'
  <2>1. update # None => update.bank \in Banks
    BY TransactionFields DEF SoundInv, TypeOK
  <2> QED
    BY <1>5, <1>8, <1>9, <1>10, <2>1 DEF SoundInv, UpdateInv
<1>14. RamInv'
  BY <1>9, <1>10 DEF SoundInv, RamInv
<1> QED
  BY <1>7, <1>8, <1>12, <1>13, <1>14 DEF SoundInv

-----------------------------------------------------------------------------
(* The theorems. *)

LEMMA SoundInit ==
  ASSUME Careful, Init
  PROVE  SoundInv /\ Shown = NoBundle
<1>1. flash = [b \in Banks |-> BlankBank] /\ Boot /\ wear = 0
  BY DEF Init
<1>2. /\ BlankBank \in Images /\ ~Committed(BlankBank) /\ ~Staged(BlankBank)
  BY DEF BlankBank, Images, Commits, Committed, Staged
<1>3. TypeOK
  <2>1. flash \in [Banks -> Images] /\ scanned \in BOOLEAN /\ update = None /\ complete = {}
    BY <1>1, <1>2 DEF Boot
  <2>2. selection \in [Banks -> Transactions \cup {None}]
        /\ lease \in [Slots -> Transactions \cup {None}]
    BY <1>1 DEF Boot, Unknown
  <2>3. fast \in [known : BOOLEAN, of : Transactions \cup {None}]
    BY <1>1 DEF Boot, Unread
  <2>4. wear \in 0 .. MaxWear
    BY <1>1, SoundBanksAssumption
  <2> QED
    BY <2>1, <2>2, <2>3, <2>4 DEF TypeOK
<1>4. FlashInv
  BY <1>1, <1>2 DEF FlashInv, Proper
<1>5. UpdateInv /\ RamInv
  BY <1>1 DEF UpdateInv, RamInv, Boot, Unread
<1>6. \A b \in Banks : Strict(flash)[b] = None
  BY <1>1, <1>2, <1>3, <1>4, ScanFinds DEF Found
<1>7. Active(Strict(flash)) = None
  BY <1>3, <1>4, <1>6, ScanFinds, ActiveIsOne DEF Banks, Other
<1> QED
  BY <1>3, <1>4, <1>5, <1>7 DEF SoundInv, Shown, BundleOf

LEMMA SoundStep ==
  ASSUME SoundInv, [Next]_vars
  PROVE  SoundInv' /\ Replaces
<1>1. CASE Scan
  BY <1>1, KnownIsFound, PublishedKeeps DEF Scan
<1>2. CASE ScanFails
  BY <1>2, ForgottenKeeps DEF ScanFails
<1>3. CASE QueryCurrentActive
  BY <1>3, QueryKeeps
<1>4. ASSUME NEW c \in Contents, NEW plan,
             plan = [base |-> BundleOf(Active(Known)), content |-> c],
             BeginNew(plan) \/ BeginStaged(plan) \/ DiscardInvalidStaging(plan)
      PROVE  SoundInv' /\ Replaces
  BY <1>4, BeginNewKeeps, BeginStagedKeeps, DiscardKeeps
<1>5. ASSUME NEW b \in Banks, ResumeUpdate(b) PROVE SoundInv' /\ Replaces
  BY <1>5, ResumeKeeps
<1>6. CASE WriteManifest
  BY <1>6, WriteManifestKeeps
<1>7. ASSUME NEW u \in Units, WritePayloadBlock(u) PROVE SoundInv' /\ Replaces
  BY <1>7, WritePayloadBlockKeeps
<1>8. CASE CommitUpdate \/ \E n \in Units : CommitRefused(n)
  BY <1>8, CommitKeeps, RefusedKeeps
<1>9. CASE AbortUpdate
  BY <1>9, AbortKeeps
<1>10. ASSUME NEW s \in Slots, AcquireActiveRead(s) \/ ReleaseRead(s)
       PROVE  SoundInv' /\ Replaces
  BY <1>10, AcquireKeeps, ReleaseKeeps
<1>11. CASE PowerCycle
  BY <1>11, PowerCycleKeeps
<1>12. ASSUME NEW b \in Banks, NEW u \in Units, Decay(b, u) PROVE SoundInv' /\ Replaces
  BY <1>12, DecayKeeps
<1>13. CASE UNCHANGED vars
  <2>1. UNCHANGED <<flash, scanned, selection, fast, update, complete, lease, wear>>
    BY <1>13 DEF vars, ram
  <2>2. Seen' = Seen
    BY <2>1 DEF Seen
  <2>3. TypeOK' /\ FlashInv'
    BY <2>1 DEF SoundInv, TypeOK, FlashInv
  <2>4. UpdateInv' /\ RamInv'
    BY <2>1, <2>2 DEF SoundInv, UpdateInv, RamInv
  <2> QED
    BY <2>1, <2>3, <2>4 DEF SoundInv, Replaces, Shown
<1> QED
  BY <1>1, <1>2, <1>3, <1>4, <1>5, <1>6, <1>7, <1>8, <1>9, <1>10, <1>11, <1>12, <1>13 DEF Next

LEMMA Sound == Careful /\ Spec => []SoundInv
<1>1. Careful /\ Init => SoundInv
  BY SoundInit
<1>2. SoundInv /\ [Next]_vars => SoundInv'
  BY SoundStep
<1> QED
  BY <1>1, <1>2, PTL DEF Spec

\* Flash, the RAM that mirrors it and the open update keep their shapes, in every state of a
\* store whose client is careful (SpeakerSoundAssetStore).
THEOREM TypeCorrect == Careful /\ Spec => []TypeOK
<1>1. SoundInv => TypeOK
  BY DEF SoundInv
<1> QED
  BY <1>1, Sound, PTL

\* The player reads its bundle to the last byte: no update, commit, abort or recovery touches a
\* bank that a lease pins (target_is_pinned, acquire_active_read).
THEOREM LeasesHold == Careful /\ Spec => []LeasedBundleIntact
<1>1. SoundInv => LeasedBundleIntact
  <2> SUFFICES ASSUME SoundInv, NEW s \in Slots, lease[s] # None
               PROVE  /\ ValidBank(flash[lease[s].bank])
                      /\ flash[lease[s].bank].commit.of = lease[s]
    BY DEF LeasedBundleIntact
  <2>1. lease[s].bank \in Banks /\ Seen[lease[s].bank] = lease[s]
    BY TransactionFields DEF SoundInv, TypeOK, RamInv
  <2>2. Strict(flash)[lease[s].bank] = lease[s]
    BY <2>1 DEF Seen
  <2> QED
    BY <2>1, <2>2 DEF Strict
<1> QED
  BY <1>1, Sound, PTL

\* What the store says of a transaction from RAM is what Flash says (query_transaction_outcome).
THEOREM OutcomesAreTrue == Careful /\ Spec => []OutcomeIsTruthful
<1>1. SoundInv => OutcomeIsTruthful
  <2> SUFFICES ASSUME SoundInv, scanned PROVE OutcomeIsTruthful
    BY DEF OutcomeIsTruthful
  <2>1. selection = Seen
    BY DEF SoundInv, RamInv
  <2>2. ASSUME NEW b \in Banks, selection[b] # None
        PROVE  /\ Outcome(selection[b]) \in {"active", "committed"}
               /\ Strict(flash)[b] = selection[b]
    BY <2>1, <2>2 DEF Seen, Outcome
  <2>3. ASSUME NEW b \in Banks, Strict(flash)[b] # None
        PROVE  Outcome(Strict(flash)[b]) # "unknown"
    <3>1. CASE update # None /\ update.bank = b
      <4>1. Committed(flash[b])
        BY <2>3 DEF Strict, ValidBank
      <4>2. Strict(flash)[b] = update
        BY <2>3, <3>1, <4>1 DEF SoundInv, UpdateInv, Strict
      <4> QED
        BY <4>2 DEF Outcome
    <3>2. CASE ~(update # None /\ update.bank = b)
      BY <2>1, <2>3, <3>2 DEF Seen, Outcome
    <3> QED
      BY <3>1, <3>2
  <2> QED
    BY <2>2, <2>3 DEF OutcomeIsTruthful
<1> QED
  BY <1>1, Sound, PTL

\* The two banks implement one bundle that is only ever replaced, as a whole, by the next
\* generation: no power loss, failed Flash operation or abandoned upload changes or loses it
\* (sound_asset_store).
THEOREM BanksImplementBundle == Careful /\ Spec => ReplacedAtomically
<1>1. Careful /\ Init => Device!Init
  BY SoundInit DEF Device!Init, Device!NoBundle, Shown, NoBundle
<1>2. SoundInv /\ [Next]_vars => [Device!Next]_Shown
  BY SoundStep DEF Replaces, Device!Next
<1>3. SoundInv /\ [Next]_vars => [Device!Next]_(BundleOf(Active(Strict(flash))))
  BY <1>2 DEF Shown
<1> QED
  BY <1>1, <1>3, Sound, PTL DEF Spec, ReplacedAtomically, Device!Spec

-----------------------------------------------------------------------------
(* Staging headers. *)

\* The marker in a bank is of the transaction its header names, and so is the open update.
HeaderAgrees(f) == Committed(f) /\ Staged(f) => f.header = f.commit.of
HeaderInv ==
  /\ \A b \in Banks : HeaderAgrees(flash[b])
  /\ update # None /\ Staged(flash[update.bank]) => flash[update.bank].header = update

\* A header may go when it is torn already, belongs to the open update, or is out of date.
MayLose(b) ==
  \/ ~Staged(flash[b])
  \/ update = flash[b].header
  \/ Shown.gen >= Generation(flash[b].header)

StagingKept ==
  \A b \in Banks : Staged(flash[b]) /\ flash'[b].header # flash[b].header
    => \/ update = flash[b].header
       \/ Shown.gen >= Generation(flash[b].header)

HeaderKeeps == HeaderInv' /\ StagingKept

\* A step that writes one bank and opens no update.
LEMMA HeaderSet ==
  ASSUME SoundInv, HeaderInv, NEW b \in Banks, NEW g, SetBank(b, g), HeaderAgrees(g),
         g.header = flash[b].header \/ MayLose(b),
         update' \in {update, None},
         g.header = flash[b].header \/ update = None \/ ~Staged(g)
  PROVE  HeaderKeeps
<1>1. flash'[b] = g /\ \A x \in Banks \ {b} : flash'[x] = flash[x]
  BY DEF SetBank, SoundInv, TypeOK
<1>2. StagingKept
  BY <1>1 DEF StagingKept, MayLose
<1>3. \A x \in Banks : HeaderAgrees(flash'[x])
  BY <1>1 DEF HeaderInv
<1>4. ASSUME update' # None, Staged(flash'[update'.bank]) PROVE flash'[update'.bank].header = update'
  <2>1. update' = update /\ update # None /\ update.bank \in Banks
    BY <1>4, TransactionFields DEF SoundInv, TypeOK
  <2>2. CASE update.bank = b
    BY <1>1, <1>4, <2>1, <2>2 DEF HeaderInv, Staged
  <2>3. CASE update.bank # b
    BY <1>1, <1>4, <2>1, <2>3 DEF HeaderInv
  <2> QED
    BY <2>2, <2>3
<1> QED
  BY <1>2, <1>3, <1>4 DEF HeaderKeeps, HeaderInv, HeaderAgrees

\* A step that leaves Flash alone.
LEMMA HeaderSame ==
  ASSUME SoundInv, HeaderInv, UNCHANGED flash,
         update' # None => update' = update \/ flash[update'.bank].header = update'
  PROVE  HeaderKeeps
  BY DEF HeaderKeeps, HeaderInv, HeaderAgrees, StagingKept

\* The active bundle is the latest.
LEMMA ActiveIsLatest ==
  ASSUME NEW sel \in Selections, ~SplitBrain(sel), NEW b \in Banks, sel[b] # None
  PROVE  BundleOf(Active(sel)).gen >= Generation(sel[b])
<1>1. sel["A"] \in Transactions \cup {None} /\ sel["B"] \in Transactions \cup {None}
  BY DEF Selections, Banks
<1>2. ASSUME NEW x \in Banks, sel[x] # None PROVE Generation(sel[x]) \in Nat
  <2>1. sel[x] \in Transactions
    BY <1>2 DEF Selections
  <2> QED
    BY <2>1, TransactionFields
<1>3. CASE b = "A"
  BY <1>1, <1>2, <1>3 DEF Active, BundleOf, Banks
<1>4. CASE b = "B"
  BY <1>1, <1>2, <1>4 DEF Active, BundleOf, Banks
<1> QED
  BY <1>3, <1>4 DEF Banks

\* What a new update erases in its bank is out of date.
LEMMA ReclaimableMayGo ==
  ASSUME SoundInv, HeaderInv, NEW plan, MayBegin(plan), Reclaimable(Target(Known))
  PROVE  MayLose(Target(Known))
<1> DEFINE b == Target(Known)
<1>1. /\ update = None /\ Known = Strict(flash) /\ Known \in Selections /\ ~SplitBrain(Known)
      /\ b \in Banks /\ Reclaimable(b)
  BY MayBeginMeans
<1> SUFFICES MayLose(b)
  OBVIOUS
<1> HIDE DEF b
<1>2. Strict(flash)[b] = Found(flash[b])
  BY <1>1, ScanFinds DEF SoundInv
<1>3. CASE Known[b] # None /\ Staged(flash[b])
  <2>1. flash[b].header = Known[b]
    BY <1>1, <1>2, <1>3 DEF HeaderInv, HeaderAgrees, Found
  <2>2. Shown.gen >= Generation(Known[b])
    BY <1>1, <1>3, ActiveIsLatest DEF Shown
  <2> QED
    BY <2>1, <2>2 DEF MayLose
<1>4. CASE flash[b].header = Blank
  BY <1>4 DEF MayLose, Staged
<1>5. CASE /\ Staged(flash[b]) /\ Active(Known) # None
           /\ Generation(flash[b].header) <= Generation(Active(Known))
  <2>1. Active(Known) \in Transactions /\ flash[b].header \in Transactions
    <3>1. Active(Known) \in Transactions \cup {None}
      BY <1>1, ActiveIsOne
    <3>2. flash[b] \in Images
      BY <1>1 DEF SoundInv, TypeOK
    <3> QED
      BY <1>5, <3>1, <3>2, ImageFields DEF Staged
  <2>2. Generation(Active(Known)) \in Nat /\ Generation(flash[b].header) \in Nat
    BY <2>1, TransactionFields
  <2> QED
    BY <1>1, <1>5, <2>2 DEF MayLose, Shown, BundleOf
<1> QED
  BY <1>1, <1>3, <1>4, <1>5 DEF Reclaimable, MayLose

\* Erasing a bank may leave its marker only with its header.
LEMMA CommitErased ==
  ASSUME NEW f \in Images, HeaderAgrees(f), NEW h \in {f.header, Blank, Torn},
         NEW us, NEW c \in ErasedCommit(f.commit)
  PROVE  HeaderAgrees([header |-> h, unit |-> us, commit |-> c])
<1>1. c \in Commits /\ (c # Blank /\ c.whole => c = f.commit)
  BY ImageFields, EraseFields
<1> QED
  BY <1>1 DEF HeaderAgrees, Committed, Staged

\* A new update, the recovery of torn staging, the units, the marker and the abort.
LEMMA HeaderBeginNew ==
  ASSUME SoundInv, HeaderInv, NEW plan, BeginNew(plan)
  PROVE  HeaderKeeps
<1> DEFINE b == Target(Known)
           f == flash[b]
           t == Transaction(b, plan)
           begun == [BlankBank EXCEPT !.header = t]
<1>1. /\ update = None /\ b \in Banks /\ f \in Images /\ HeaderAgrees(f) /\ MayLose(b)
  BY MayBeginMeans, ReclaimableMayGo DEF BeginNew, HeaderInv
<1>2. f = [header |-> f.header, unit |-> f.unit, commit |-> f.commit]
  BY <1>1, ImageFields
<1>5. CASE \E c \in ErasedCommit(f.commit) :
             LET g == [f EXCEPT !.commit = c]
             IN  \/ PowerLoss(b, g)
                 \/ /\ SetBank(b, g) /\ Forget
                    /\ UNCHANGED <<update, complete, lease, wear>>
  <2>1. PICK c \in ErasedCommit(f.commit) :
             LET g == [f EXCEPT !.commit = c]
             IN  \/ PowerLoss(b, g)
                 \/ /\ SetBank(b, g) /\ Forget
                    /\ UNCHANGED <<update, complete, lease, wear>>
    BY <1>5
  <2> DEFINE g == [header |-> f.header, unit |-> f.unit, commit |-> c]
  <2>2. [f EXCEPT !.commit = c] = g
    BY <1>2
  <2>3. SetBank(b, g) /\ update' = None
    BY <1>1, <2>1, <2>2 DEF PowerLoss, Reboot
  <2>4. HeaderAgrees(g)
    BY <1>1, CommitErased
  <2> QED
    BY <1>1, <2>3, <2>4, HeaderSet
<1>6. CASE \E h \in ErasedHeader(f.header), us \in ErasedUnits(f) :
             LET g == [header |-> h, unit |-> us, commit |-> Blank]
             IN  \/ PowerLoss(b, g)
                 \/ /\ SetBank(b, g)
                    /\ scanned' = TRUE
                    /\ selection' = [Known EXCEPT ![b] = None]
                    /\ fast' = IF scanned THEN fast
                               ELSE [known |-> TRUE, of |-> Active(Known)]
                    /\ UNCHANGED <<update, complete, lease, wear>>
  <2>1. PICK h \in ErasedHeader(f.header), us \in ErasedUnits(f) :
             LET g == [header |-> h, unit |-> us, commit |-> Blank]
             IN  SetBank(b, g) /\ update' = None
    BY <1>1, <1>6 DEF PowerLoss, Reboot
  <2>2. HeaderAgrees([header |-> h, unit |-> us, commit |-> Blank])
    BY DEF HeaderAgrees, Committed
  <2> QED
    BY <1>1, <2>1, <2>2, HeaderSet
<1>7. CASE \E h \in {Blank, Torn, begun.header}, ok \in BOOLEAN :
             LET g == [BlankBank EXCEPT !.header = h]
             IN  \/ PowerLoss(b, g)
                 \/ /\ ok => h = begun.header
                    /\ SetBank(b, g)
                    /\ scanned' = TRUE
                    /\ selection' = [Known EXCEPT ![b] = None]
                    /\ fast' = IF scanned THEN fast
                               ELSE [known |-> TRUE, of |-> Active(Known)]
                    /\ update' = IF ok THEN begun.header ELSE None
                    /\ complete' = {}
                    /\ UNCHANGED <<lease, wear>>
  <2>1. PICK h \in {Blank, Torn, begun.header}, ok \in BOOLEAN :
             LET g == [BlankBank EXCEPT !.header = h]
             IN  /\ SetBank(b, g)
                 /\ update' = None \/ (update' = begun.header /\ h = begun.header)
    BY <1>7 DEF PowerLoss, Reboot
  <2> DEFINE g == [BlankBank EXCEPT !.header = h]
  <2>2. g.header = h /\ HeaderAgrees(g) /\ begun.header = t /\ t.bank = b
    BY DEF BlankBank, HeaderAgrees, Committed, Transaction
  <2>3. CASE update' = None
    BY <1>1, <2>1, <2>2, <2>3, HeaderSet
  <2>4. CASE update' = begun.header /\ h = begun.header
    <3>1. flash'[b] = g /\ \A x \in Banks \ {b} : flash'[x] = flash[x]
      BY <1>1, <2>1 DEF SetBank, SoundInv, TypeOK
    <3> HIDE DEF b, g, begun
    <3>2. StagingKept
      BY <1>1, <3>1 DEF StagingKept, MayLose
    <3>3. \A x \in Banks : HeaderAgrees(flash'[x])
      BY <1>1, <2>2, <3>1 DEF HeaderInv
    <3>4. flash'[update'.bank].header = update'
      BY <2>2, <2>4, <3>1
    <3> QED
      BY <3>2, <3>3, <3>4 DEF HeaderKeeps, HeaderInv, HeaderAgrees
  <2> QED
    BY <2>1, <2>3, <2>4
<1> QED
  BY <1>5, <1>6, <1>7 DEF BeginNew

LEMMA HeaderDiscard ==
  ASSUME SoundInv, HeaderInv, NEW plan, DiscardInvalidStaging(plan)
  PROVE  HeaderKeeps
<1> DEFINE b == Target(Known)
           f == flash[b]
<1>1. /\ update = None /\ b \in Banks /\ f \in Images /\ HeaderAgrees(f)
      /\ f.header = Torn /\ MayLose(b)
  BY MayBeginMeans DEF DiscardInvalidStaging, HeaderInv, MayLose, Staged
<1>2. CASE \E h \in ErasedHeader(f.header), us \in ErasedUnits(f), c \in ErasedCommit(f.commit) :
             SetBank(b, [header |-> h, unit |-> us, commit |-> c]) /\ update' = None
  <2>1. PICK h \in ErasedHeader(f.header), us \in ErasedUnits(f), c \in ErasedCommit(f.commit) :
             SetBank(b, [header |-> h, unit |-> us, commit |-> c]) /\ update' = None
    BY <1>2
  <2>2. h \in {f.header, Blank, Torn}
    BY DEF ErasedHeader
  <2>3. HeaderAgrees([header |-> h, unit |-> us, commit |-> c])
    BY <1>1, <2>2, CommitErased
  <2> QED
    BY <1>1, <2>1, <2>3, HeaderSet
<1>3. CASE SetBank(b, BlankBank) /\ update' = None
  <2>1. HeaderAgrees(BlankBank)
    BY DEF HeaderAgrees, Committed, BlankBank
  <2> QED
    BY <1>1, <1>3, <2>1, HeaderSet
<1> QED
  BY <1>1, <1>2, <1>3 DEF DiscardInvalidStaging, PowerLoss, Reboot

LEMMA HeaderUnit ==
  ASSUME SoundInv, HeaderInv, NEW b \in Banks, NEW u, NEW v,
         SetBank(b, [flash[b] EXCEPT !.unit[u] = v]), update' \in {update, None}
  PROVE  HeaderKeeps
<1> DEFINE g == [flash[b] EXCEPT !.unit[u] = v]
<1>1. flash[b] \in Images /\ HeaderAgrees(flash[b])
  BY DEF SoundInv, TypeOK, HeaderInv
<1>2. g.header = flash[b].header /\ g.commit = flash[b].commit
  BY <1>1, ImageFields
<1>3. HeaderAgrees(g)
  BY <1>1, <1>2 DEF HeaderAgrees, Committed, Staged
<1> HIDE DEF g
<1> QED
  BY <1>2, <1>3, HeaderSet DEF g

LEMMA HeaderCommit ==
  ASSUME SoundInv, HeaderInv, CommitUpdate
  PROVE  HeaderKeeps
<1> DEFINE b == update.bank
           f == flash[b]
           done == [f EXCEPT !.commit = Programmed(f.commit, update)]
           half == [f EXCEPT !.commit = HalfProgrammed(f.commit, update)]
<1>1. update # None /\ update \in Transactions /\ b \in Banks /\ f \in Images /\ HeaderAgrees(f)
      /\ (Staged(f) => f.header = update)
  BY TransactionFields DEF CommitUpdate, SoundInv, TypeOK, HeaderInv
<1>2. PICK g \in {f, done, half} : SetBank(b, g)
  BY DEF CommitUpdate, PowerLoss
<1>3. update' \in {update, None}
  BY DEF CommitUpdate, PowerLoss, Reboot, ClearUpdate, ram
<1>4. g.header = f.header
      /\ (g.commit = f.commit \/ g.commit = Programmed(f.commit, update)
          \/ g.commit = HalfProgrammed(f.commit, update))
  <2>1. f = [header |-> f.header, unit |-> f.unit, commit |-> f.commit]
    BY <1>1, ImageFields
  <2> HIDE DEF f
  <2> QED
    BY <2>1
<1>5. Committed(g) => g.commit = f.commit \/ g.commit.of = update
  <2>1. f.commit \in Commits
    BY <1>1, ImageFields
  <2> QED
    BY <1>1, <1>4, <2>1, ProgramFields DEF Committed
<1>6. HeaderAgrees(g)
  BY <1>1, <1>4, <1>5 DEF HeaderAgrees, Committed, Staged
<1> HIDE DEF b, f
<1> QED
  BY <1>1, <1>2, <1>3, <1>4, <1>6, HeaderSet DEF f

LEMMA HeaderAbort ==
  ASSUME SoundInv, HeaderInv, AbortUpdate
  PROVE  HeaderKeeps
<1> DEFINE b == update.bank
           f == flash[b]
<1>1. update # None /\ b \in Banks /\ f \in Images /\ HeaderAgrees(f) /\ MayLose(b)
  BY TransactionFields DEF AbortUpdate, SoundInv, TypeOK, HeaderInv, MayLose
<1>2. update' \in {update, None}
  BY DEF AbortUpdate, PowerLoss, Reboot, ClearUpdate, ram
<1>3. CASE \E h \in {f.header, Blank, Torn} : SetBank(b, [f EXCEPT !.header = h])
  <2>1. PICK h \in {f.header, Blank, Torn} : SetBank(b, [f EXCEPT !.header = h])
    BY <1>3
  <2> DEFINE g == [f EXCEPT !.header = h]
  <2>2. g.header = h /\ g.commit = f.commit
    BY <1>1, ImageFields
  <2>3. HeaderAgrees(g)
    BY <1>1, <2>2 DEF HeaderAgrees, Committed, Staged
  <2>4. g.header = f.header \/ ~Staged(g)
    BY <2>2 DEF Staged
  <2> HIDE DEF g
  <2> QED
    BY <1>1, <1>2, <2>1, <2>3, <2>4, HeaderSet DEF g
<1>4. CASE UNCHANGED flash
  BY <1>2, <1>4, HeaderSame
<1> QED
  BY <1>3, <1>4 DEF AbortUpdate, PowerLoss, ErasedHeader

\* The invariant of the headers, and what a step does to them.
LEMMA HeaderInit == Init => HeaderInv
  BY DEF Init, Boot, HeaderInv, HeaderAgrees, BlankBank, Committed

LEMMA HeaderStep ==
  ASSUME SoundInv, HeaderInv, [Next]_vars
  PROVE  HeaderKeeps
<1>1. CASE Scan \/ ScanFails \/ QueryCurrentActive \/ PowerCycle \/ UNCHANGED vars
           \/ \E n \in Units : CommitRefused(n)
  <2>1. UNCHANGED flash /\ update' \in {update, None}
    BY <1>1 DEF Scan, ScanFails, QueryCurrentActive, ClearUpdate, PowerCycle, Reboot, vars, ram,
                CommitRefused
  <2> QED
    BY <2>1, HeaderSame
<1>2. ASSUME NEW plan, BeginStaged(plan) PROVE HeaderKeeps
  <2>1. PICK t : Load(t)
    BY <1>2 DEF BeginStaged
  <2> QED
    BY <2>1, HeaderSame DEF Load
<1>3. ASSUME NEW b \in Banks, ResumeUpdate(b) PROVE HeaderKeeps
  <2>1. PICK t : Load(t)
    BY <1>3 DEF ResumeUpdate
  <2> QED
    BY <2>1, HeaderSame DEF Load
<1>4. ASSUME NEW c \in Contents, NEW plan,
             BeginNew(plan) \/ BeginStaged(plan) \/ DiscardInvalidStaging(plan)
      PROVE  HeaderKeeps
  BY <1>2, <1>4, HeaderBeginNew, HeaderDiscard
<1>5. CASE WriteManifest \/ \E u \in Units \ {0} : WritePayloadBlock(u)
  <2>1. update # None /\ update.bank \in Banks
    BY <1>5, TransactionFields DEF WriteManifest, WritePayloadBlock, SoundInv, TypeOK
  <2>2. CASE UNCHANGED <<flash, update>>
    BY <2>2, HeaderSame
  <2>3. CASE \E u, v : SetBank(update.bank, [flash[update.bank] EXCEPT !.unit[u] = v])
                      /\ update' \in {update, None}
    BY <2>1, <2>3, HeaderUnit
  <2> QED
    BY <1>5, <2>2, <2>3 DEF WriteManifest, WritePayloadBlock, PowerLoss, Reboot, WithUnit
<1>6. ASSUME NEW s \in Slots, AcquireActiveRead(s) \/ ReleaseRead(s) PROVE HeaderKeeps
  <2>1. UNCHANGED <<flash, update>>
    BY <1>6 DEF AcquireActiveRead, ReleaseRead
  <2> QED
    BY <2>1, HeaderSame
<1>7. ASSUME NEW b \in Banks, NEW u \in Units, Decay(b, u) PROVE HeaderKeeps
  <2>1. SetBank(b, [flash[b] EXCEPT !.unit[u] = Torn]) /\ update' = update
    BY <1>7 DEF Decay, ram
  <2> QED
    BY <2>1, HeaderUnit
<1> QED
  BY <1>1, <1>3, <1>4, <1>5, <1>6, <1>7, HeaderCommit, HeaderAbort DEF Next

\* An upload that can be continued is lost only by its own abort, or to a bundle of a later
\* generation (begin_new_update, discard_invalid_staging, abort_update).
THEOREM StagingSurvives == Careful /\ Spec => StagingIsKept
<1>1. SoundInv /\ HeaderInv /\ [Next]_vars => HeaderInv'
  BY HeaderStep DEF HeaderKeeps
<1>2. SoundInv /\ HeaderInv /\ [Next]_vars =>
        [\A b \in Banks :
           LET t == flash[b].header
           IN  Staged(flash[b]) /\ flash'[b].header # t
               => \/ update = t
                  \/ BundleOf(Active(Strict(flash))).gen >= Generation(t)]_vars
  BY HeaderStep DEF HeaderKeeps, StagingKept, Shown
<1> QED
  BY <1>1, <1>2, HeaderInit, Sound, PTL DEF Spec, StagingIsKept
=============================================================================
