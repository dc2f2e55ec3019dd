-------------------------- MODULE SessionHooks_proofs --------------------------
(***************************************************************************)
(* The hooks of a session, for any number of prompt hooks, any budgets and *)
(* limits, any memories and any length of the session: no part of a        *)
(* digest is forgotten between the processes that deliver it, each stop    *)
(* gate keeps its limits whatever the other gates do, and a trace agrees   *)
(* with the transcript whichever of its calls comes late.                  *)
(***************************************************************************)
EXTENDS DigestDelivery, StopGates, TraceCapture, FiniteSetTheorems,
        SequenceTheorems, WellFoundedInduction, TLAPS

Tries == 0..(MaxRetries - 1)
Theres == [here : {TRUE}, parts : SUBSET Parts, attempts : Tries, since : Ages \cup {Never},
           mtime : Ages, open : SUBSET Writers]
Files == {NoFile} \cup Theres
InWrite == {"write", "rewrite"}
BootSteps == {"off", "open", "fetch core", "fetch session", "health", "reconcile", "reopen", "clear"}
               \cup InWrite
RetrySteps == {"off", "stat", "recover", "claim", "touch", "read", "cli", "fetch", "emit", "finish",
               "write", "unlink"}
Boots == [pc : BootSteps, age : 0..StartBudget, expected : SUBSET Parts, before : SUBSET Parts,
          missing : SUBSET Parts]
Retries == [pc : RetrySteps, age : 0..RetryBudget, parts : SUBSET Parts, attempts : Tries,
            got : SUBSET Parts]
Books == [owed : SUBSET Parts, shown : SUBSET Parts, cut : SUBSET Parts, failed : 0..MaxRetries,
          starts : Nat, kills : Nat, amiss : BOOLEAN]

(* A hook that writes a marker again has a try left.                        *)
TriesLeft(h) == h.pc = "write" => RetryAgain(h.attempts)

DigestTypes ==
  /\ pendingFile \in Files /\ claimedFile \in Files
  /\ bootHook \in Boots /\ retryHook \in [Prompts -> Retries] /\ book \in Books
  /\ \A r \in Prompts : TriesLeft(retryHook[r])

(* What is owed is cut, printed or in a file, the hands of the hooks apart. *)
Covered(p, c, b) == b.owed \subseteq b.cut \cup b.shown \cup p.parts \cup c.parts

(* The files while no start is under way: a marker has counted no more      *)
(* tries than failed since the start, and beside a marker a left-over claim *)
(* holds nothing of its own.                                                *)
AtRest(p, c, b) ==
  /\ p.attempts <= b.failed /\ c.attempts <= b.failed
  /\ Readable(p) => c.parts \cap b.owed \subseteq p.parts \cup b.shown

(* A start has the parts of the marker in hand before it empties it, keeps  *)
(* its parts in the marker until it has put right what is left, and clears  *)
(* the claim only when the marker has its parts.                            *)
BootKeeps(h, p, c, b) ==
  /\ h.pc \in {"open", "write"} => h.expected \subseteq h.before
  /\ h.pc = "open" => AtRest(p, c, b) /\ p.parts \subseteq h.before
  /\ h.pc \in InWrite => p.parts = {} /\ b.owed \subseteq b.cut \cup b.shown \cup c.parts \cup h.before
  /\ h.pc \in {"fetch core", "fetch session", "health", "reconcile"} => h.before \subseteq p.parts
  /\ h.pc = "reconcile" => h.expected \ h.missing \subseteq b.shown
  /\ h.pc = "reopen" => p.parts \subseteq h.before \cup b.shown
  /\ h.pc \in {"reopen", "rewrite"} => c.parts \subseteq h.before \cup b.shown
  /\ h.pc = "clear" => c.parts \subseteq p.parts \cup b.shown
  /\ h.pc # "open" => p.attempts = 0

(* A prompt hook holds exactly the claim, and there is no marker until it   *)
(* writes one; the claim is dropped only after that.                        *)
RetryKeeps(h, p, c, b) ==
  /\ h.pc \in {"stat", "recover"} => ~Readable(p) /\ b.kills # 0
  /\ h.pc = "claim" => Readable(p)
  /\ h.pc \in {"touch", "read", "cli", "fetch", "emit", "finish"} => Readable(c) /\ ~p.here
  /\ h.pc \in {"cli", "fetch", "emit", "finish", "write"} => h.parts = c.parts /\ h.attempts = c.attempts
  /\ h.pc \in {"finish", "write"} => h.got \subseteq b.shown
  /\ h.pc = "write" => p.parts = {} /\ h.attempts + 1 <= b.failed
  /\ h.pc = "unlink" => c.parts \cap b.owed \subseteq p.parts \cup b.shown

Alone(r) == bootHook.pc = "off" /\ \A s \in Prompts : s # r => retryHook[s].pc = "off"
NoRetry == \A s \in Prompts : retryHook[s].pc = "off"

(* The writers that have the marker open.                                   *)
BootOpens(h) == IF h.pc \in InWrite THEN {Start} ELSE {}
RetryOpens(h, r) == IF h.pc = "write" THEN {r} ELSE {}
Opened == BootOpens(bootHook) \cup {r \in Prompts : retryHook[r].pc = "write"}

DigestKept ==
  Orderly(book) =>
    /\ bootHook.pc = "off" \/ NoRetry
    /\ \A r, s \in Prompts : r # s => retryHook[r].pc = "off" \/ retryHook[s].pc = "off"
    /\ bootHook.pc # "off" => BootKeeps(bootHook, pendingFile, claimedFile, book)
    /\ bootHook.pc = "off" => AtRest(pendingFile, claimedFile, book)
    /\ \A r \in Prompts : RetryKeeps(retryHook[r], pendingFile, claimedFile, book)
    /\ book.kills = 0 /\ NoRetry => ~claimedFile.here
    /\ bootHook.pc \notin InWrite => Covered(pendingFile, claimedFile, book)
    /\ pendingFile.open = Opened /\ claimedFile.open = {}

DigestInv == DigestTypes /\ DigestKept

-----------------------------------------------------------------------------
(* Files                                                                    *)

(* The constants are numbers.                                               *)
LEMMA Limits ==
  /\ StartBudget \in Nat /\ RetryBudget \in Nat /\ RunningGrace \in Nat /\ ClaimStale \in Nat
  /\ MaxRetries \in Nat /\ MaxRetries > 0 /\ RunningGrace <= ClaimStale
  /\ 0 \in Tries /\ Tries \subseteq Nat /\ 0 \in Ages
BY DigestConstants DEF Tries, Ages

(* A file that is not there.                                                *)
LEMMA NoFileIs ==
  /\ NoFile \in Files /\ NoFile.here = FALSE /\ NoFile.parts = {} /\ NoFile.attempts = 0
  /\ NoFile.mtime = 0 /\ NoFile.since = Never /\ NoFile.open = {}
BY DEF NoFile, Files

(* Only a file that is there holds parts or is open.                        *)
LEMMA FileIs ==
  ASSUME NEW f \in Files
  PROVE  /\ f.here \in BOOLEAN /\ f.parts \in SUBSET Parts /\ f.attempts \in Tries /\ f.mtime \in Ages
         /\ f.since \in Ages \cup {Never} /\ f.open \in SUBSET Writers
         /\ Readable(f) \/ f.open # {} => f.here
         /\ ~f.here => f = NoFile
         /\ f.here => f \in Theres
<1>1. CASE f = NoFile
  BY <1>1, NoFileIs, Limits DEF Readable
<1>2. CASE f \in Theres
  BY <1>2 DEF Theres
<1> QED BY <1>1, <1>2 DEF Files

(* A marker as it is written, or empty.                                     *)
LEMMA MarkerIs ==
  ASSUME NEW ps \in SUBSET Parts, NEW n \in Tries, NEW s \in Ages \cup {Never}
  PROVE  Marker(ps, n, s) \in Theres /\ Marker(ps, n, s).parts = ps /\ Marker(ps, n, s).attempts = n
BY Limits DEF Marker, NoFile, Theres

(* A marker that was only opened.                                           *)
LEMMA EmptyIs ==
  LET e == Marker({}, 0, Never) IN e \in Theres /\ e.parts = {} /\ e.attempts = 0
BY Limits DEF Marker, NoFile, Theres

(* A file whose descriptors are others is a file.                           *)
LEMMA ReopenIs ==
  ASSUME NEW f \in Theres, NEW o \in SUBSET Writers
  PROVE  LET g == [f EXCEPT !.open = o]
         IN g \in Theres /\ g.here = f.here /\ g.parts = f.parts /\ g.attempts = f.attempts /\ g.open = o
BY DEF Theres

(* Opening empties the marker.                                              *)
LEMMA OpenIs ==
  ASSUME DigestTypes, NEW w \in Writers, OpenMarker(w)
  PROVE  /\ pendingFile' \in Files /\ pendingFile'.parts = {} /\ pendingFile'.attempts = 0
         /\ pendingFile.open = {} => pendingFile'.open = {w}
<1> DEFINE e == Marker({}, 0, Never)
           o == pendingFile.open \cup {w}
<1>1. e \in Theres /\ e.parts = {} /\ e.attempts = 0
  BY EmptyIs
<1>2. o \in SUBSET Writers
  BY FileIs DEF DigestTypes
<1>3. pendingFile' = [e EXCEPT !.open = o]
  BY DEF OpenMarker
<1>4. pendingFile.open = {} => o = {w}
  OBVIOUS
<1> HIDE DEF e, o
<1> QED BY <1>1, <1>2, <1>3, <1>4, ReopenIs DEF Files

(* What lands in a file is what was written, or cannot be read.             *)
LEMMA LandedIs ==
  ASSUME NEW f \in Files, NEW w \in Writers, NEW m \in Files, w \in f.open => m \in Theres,
         NEW x \in Landed(f, w, m)
  PROVE  /\ x \in Files
         /\ f.open = {} => x = f
         /\ f.open = {w} /\ f.parts = {} => /\ x.open = {} /\ x.here = m.here
                                            /\ x.parts = m.parts /\ x.attempts = m.attempts
<1> DEFINE e == Marker({}, 0, Never)
           o == f.open \ {w}
<1>1. CASE w \notin f.open
  <2>1. x = f
    BY <1>1 DEF Landed
  <2> QED BY <1>1, <2>1
<1>2. CASE w \in f.open
  <2>1. PICK y \in {m} \cup (IF Readable(f) THEN {e} ELSE {}) : x = [y EXCEPT !.open = o]
    BY <1>2 DEF Landed
  <2>2. e \in Theres
    BY EmptyIs
  <2>3. y \in Theres
    BY <1>2, <2>1, <2>2
  <2>4. o \in SUBSET Writers /\ (f.open = {w} => o = {})
    BY FileIs
  <2>5. f.parts = {} => y = m
    BY <2>1 DEF Readable
  <2> HIDE DEF e, o
  <2>6. x \in Theres /\ x.open = o /\ x.here = y.here /\ x.parts = y.parts /\ x.attempts = y.attempts
    BY <2>1, <2>3, <2>4, ReopenIs
  <2> QED BY <1>2, <2>4, <2>5, <2>6 DEF Files
<1> QED BY <1>1, <1>2

(* What is in a file that a process was killed at, or that is closed.       *)
LEMMA LetGoIs ==
  ASSUME NEW f \in Files, NEW w
  PROVE  /\ LetGo(f, w) \in Files /\ LetGo(f, w).here = f.here /\ LetGo(f, w).parts = f.parts
         /\ LetGo(f, w).attempts = f.attempts /\ LetGo(f, w).open = f.open \ {w}
<1> DEFINE o == f.open \ {w}
<1>1. LetGo(f, w) = [f EXCEPT !.open = o]
  BY DEF LetGo
<1>2. CASE f = NoFile
  <2>1. o = {}
    BY <1>2, NoFileIs
  <2>2. NoFile \in [here : {FALSE}, parts : {{}}, attempts : {0}, since : {Never}, mtime : {0}, open : {{}}]
    BY DEF NoFile
  <2>3. LetGo(f, w) = NoFile
    BY <1>1, <1>2, <2>1, <2>2
  <2> QED BY <1>2, <2>3, NoFileIs
<1>3. CASE f \in Theres
  <2>1. o \in SUBSET Writers
    BY FileIs
  <2> HIDE DEF o
  <2>2. LetGo(f, w).open = o
    BY <1>1, <1>3, <2>1, ReopenIs
  <2>3. /\ LetGo(f, w) \in Files /\ LetGo(f, w).here = f.here /\ LetGo(f, w).parts = f.parts
        /\ LetGo(f, w).attempts = f.attempts
    BY <1>1, <1>3, <2>1, ReopenIs DEF Files
  <2> QED BY <2>2, <2>3 DEF o
<1> QED BY <1>2, <1>3 DEF Files

(* The book is kept while things are in order.                              *)
LEMMA NoteIs ==
  ASSUME NEW b \in Books, Note(b) PROVE book' \in Books /\ (Orderly(book') => book' = b /\ Orderly(b))
<1>1. CASE Orderly(b)
  BY <1>1 DEF Note
<1>2. CASE ~Orderly(b)
  <2>1. book' = [b EXCEPT !.owed = {}, !.shown = {}, !.cut = {}, !.failed = 0]
    BY <1>2 DEF Note
  <2>2. 0 \in 0..MaxRetries /\ {} \in SUBSET Parts
    BY Limits
  <2>3. book' \in Books /\ book'.amiss = b.amiss /\ book'.kills = b.kills
    BY <2>1, <2>2 DEF Books
  <2> QED BY <1>2, <2>3 DEF Orderly
<1> QED BY <1>1, <1>2

-----------------------------------------------------------------------------
(* Moves                                                                    *)

(* A hook that is off holds nothing.                                        *)
LEMMA OffKeeps == ASSUME NEW h, NEW p, NEW c, NEW b, h.pc = "off" PROVE RetryKeeps(h, p, c, b)
BY DEF RetryKeeps

(* What the invariant says when it says something.                          *)
LEMMA WhenOrderly ==
  ASSUME DigestInv, Orderly(book)
  PROVE  /\ bootHook.pc = "off" \/ NoRetry
         /\ \A r, s \in Prompts : r # s => retryHook[r].pc = "off" \/ retryHook[s].pc = "off"
         /\ bootHook.pc # "off" => BootKeeps(bootHook, pendingFile, claimedFile, book)
         /\ bootHook.pc = "off" => AtRest(pendingFile, claimedFile, book)
         /\ \A r \in Prompts : RetryKeeps(retryHook[r], pendingFile, claimedFile, book)
         /\ book.kills = 0 /\ NoRetry => ~claimedFile.here
         /\ bootHook.pc \notin InWrite => Covered(pendingFile, claimedFile, book)
         /\ pendingFile.open = Opened /\ claimedFile.open = {}
BY DEF DigestInv, DigestKept

(* A prompt hook that runs is the only hook, and the only writer.           *)
LEMMA OnlyRetry ==
  ASSUME DigestInv, Orderly(book), NEW r \in Prompts, retryHook[r].pc # "off"
  PROVE  /\ Alone(r) /\ AtRest(pendingFile, claimedFile, book) /\ Covered(pendingFile, claimedFile, book)
         /\ RetryKeeps(retryHook[r], pendingFile, claimedFile, book)
         /\ pendingFile.open = RetryOpens(retryHook[r], r) /\ claimedFile.open = {}
<1>1. bootHook.pc = "off"
  BY WhenOrderly DEF NoRetry
<1>2. \A s \in Prompts : s # r => retryHook[s].pc = "off"
  BY WhenOrderly
<1>3. Opened = RetryOpens(retryHook[r], r)
  BY <1>1, <1>2 DEF Opened, BootOpens, RetryOpens, InWrite
<1>4. bootHook.pc \notin InWrite
  BY <1>1 DEF InWrite
<1> QED BY <1>1, <1>2, <1>3, <1>4, WhenOrderly DEF Alone

(* A start that runs is the only hook, and the only writer.                 *)
LEMMA OnlyBoot ==
  ASSUME DigestInv, Orderly(book), bootHook.pc # "off"
  PROVE  /\ NoRetry /\ BootKeeps(bootHook, pendingFile, claimedFile, book)
         /\ bootHook.pc \notin InWrite => Covered(pendingFile, claimedFile, book)
         /\ book.kills = 0 => ~claimedFile.here
         /\ pendingFile.open = BootOpens(bootHook) /\ claimedFile.open = {}
<1>1. NoRetry
  BY WhenOrderly
<1>2. Opened = BootOpens(bootHook)
  BY <1>1 DEF Opened, NoRetry
<1> QED BY <1>1, <1>2, WhenOrderly

(* A prompt hook moves on.                                                  *)
LEMMA RetryMoves ==
  ASSUME DigestInv, NEW r \in Prompts, NEW h \in Retries, TriesLeft(h),
         retryHook' = [retryHook EXCEPT ![r] = h], bootHook' = bootHook,
         pendingFile' \in Files, claimedFile' \in Files, book' \in Books,
         Orderly(book') =>
           /\ Alone(r)
           /\ AtRest(pendingFile', claimedFile', book') /\ Covered(pendingFile', claimedFile', book')
           /\ RetryKeeps(h, pendingFile', claimedFile', book')
           /\ book'.kills = 0 /\ h.pc = "off" => ~claimedFile'.here
           /\ pendingFile'.open = RetryOpens(h, r) /\ claimedFile'.open = {}
  PROVE  DigestInv'
<1>1. retryHook'[r] = h /\ \A s \in Prompts : s # r => retryHook'[s] = retryHook[s]
  BY DEF DigestInv, DigestTypes
<1>2. DigestTypes'
  <2>1. retryHook' \in [Prompts -> Retries] /\ bootHook' \in Boots
    BY DEF DigestInv, DigestTypes
  <2>2. \A s \in Prompts : TriesLeft(retryHook'[s])
    BY <1>1 DEF DigestInv, DigestTypes
  <2> QED BY <2>1, <2>2 DEF DigestTypes
<1>3. ASSUME Orderly(book')
      PROVE  /\ bootHook'.pc = "off"
             /\ \A s \in Prompts : s # r => retryHook'[s].pc = "off"
             /\ \A s \in Prompts : RetryKeeps(retryHook'[s], pendingFile', claimedFile', book')
             /\ book'.kills = 0 /\ NoRetry' => ~claimedFile'.here
             /\ pendingFile'.open = Opened'
  <2>1. bootHook'.pc = "off" /\ \A s \in Prompts : s # r => retryHook'[s].pc = "off"
    BY <1>1, <1>3 DEF Alone
  <2>2. ASSUME NEW s \in Prompts PROVE RetryKeeps(retryHook'[s], pendingFile', claimedFile', book')
    <3>1. CASE s = r
      BY <1>1, <1>3, <3>1
    <3>2. CASE s # r
      BY <2>1, <3>2, OffKeeps
    <3> QED BY <3>1, <3>2
  <2>3. NoRetry' => h.pc = "off"
    BY <1>1 DEF NoRetry
  <2>4. Opened' = RetryOpens(h, r)
    BY <1>1, <2>1 DEF Opened, BootOpens, RetryOpens, InWrite
  <2> QED BY <1>3, <2>1, <2>2, <2>3, <2>4
<1>4. DigestKept'
  BY <1>3 DEF DigestKept
<1> QED BY <1>2, <1>4 DEF DigestInv

(* The start hook moves on.                                                 *)
LEMMA BootMoves ==
  ASSUME DigestInv, bootHook' \in Boots, retryHook' = retryHook,
         pendingFile' \in Files, claimedFile' \in Files, book' \in Books,
         Orderly(book') =>
           /\ NoRetry
           /\ bootHook'.pc = "off" => AtRest(pendingFile', claimedFile', book')
           /\ bootHook'.pc # "off" => BootKeeps(bootHook', pendingFile', claimedFile', book')
           /\ bootHook'.pc \notin InWrite => Covered(pendingFile', claimedFile', book')
           /\ book'.kills = 0 => ~claimedFile'.here
           /\ pendingFile'.open = BootOpens(bootHook') /\ claimedFile'.open = {}
  PROVE  DigestInv'
<1>1. DigestTypes'
  BY DEF DigestInv, DigestTypes
<1>2. ASSUME Orderly(book')
      PROVE  /\ NoRetry' /\ \A s \in Prompts : retryHook'[s].pc = "off"
             /\ \A s \in Prompts : RetryKeeps(retryHook'[s], pendingFile', claimedFile', book')
             /\ Opened' = BootOpens(bootHook')
  <2>1. \A s \in Prompts : retryHook'[s].pc = "off"
    BY <1>2 DEF NoRetry
  <2>2. Opened' = BootOpens(bootHook')
    BY <2>1 DEF Opened
  <2> QED BY <2>1, <2>2, OffKeeps DEF NoRetry
<1>3. DigestKept'
  BY <1>2 DEF DigestKept
<1> QED BY <1>1, <1>3 DEF DigestInv

(* A hook goes to another step and keeps what it holds.                     *)
LEMMA GoesIs ==
  ASSUME DigestInv, NEW r \in Prompts, NEW pc \in RetrySteps, Goes(r, pc)
  PROVE  LET h == [retryHook[r] EXCEPT !.pc = pc]
         IN /\ h \in Retries /\ h.pc = pc /\ h.parts = retryHook[r].parts
            /\ h.attempts = retryHook[r].attempts /\ h.got = retryHook[r].got
            /\ retryHook' = [retryHook EXCEPT ![r] = h]
<1>1. retryHook[r] \in Retries
  BY DEF DigestInv, DigestTypes
<1> QED BY <1>1 DEF Goes, Retries

(* A start goes to another step and keeps what it holds.                    *)
LEMMA BootGoesIs ==
  ASSUME DigestInv, NEW pc \in BootSteps, BootGoes(pc)
  PROVE  /\ bootHook' \in Boots /\ bootHook'.pc = pc /\ bootHook'.before = bootHook.before
         /\ bootHook'.expected = bootHook.expected /\ bootHook'.missing = bootHook.missing
<1>1. bootHook \in Boots
  BY DEF DigestInv, DigestTypes
<1> QED BY <1>1 DEF BootGoes, Boots

(* A claimed, marker-less hook that moves on with the files as they are.    *)
LEMMA SameFiles ==
  ASSUME DigestInv, NEW r \in Prompts, retryHook[r].pc \notin {"off", "write"},
         NEW h \in Retries, h.pc # "write",
         retryHook' = [retryHook EXCEPT ![r] = h], bootHook' = bootHook,
         UNCHANGED <<pendingFile, claimedFile, book>>,
         Orderly(book) => RetryKeeps(h, pendingFile, claimedFile, book),
         Orderly(book) /\ book.kills = 0 /\ h.pc = "off" => ~claimedFile.here
  PROVE  DigestInv'
<1>1. pendingFile' \in Files /\ claimedFile' \in Files /\ book' \in Books
  BY DEF DigestInv, DigestTypes
<1>2. Orderly(book) => /\ Alone(r) /\ AtRest(pendingFile, claimedFile, book)
                       /\ Covered(pendingFile, claimedFile, book)
                       /\ pendingFile.open = RetryOpens(h, r) /\ claimedFile.open = {}
  BY OnlyRetry DEF RetryOpens
<1>3. TriesLeft(h)
  BY DEF TriesLeft
<1> QED BY <1>1, <1>2, <1>3, RetryMoves

-----------------------------------------------------------------------------
(* The prompt hook                                                          *)

(* A prompt hook looks at the files.                                        *)
LEMMA LookOK == ASSUME DigestInv, NEW r \in Prompts, Look(r) PROVE DigestInv'
<1> DEFINE busy == book.amiss \/ RetriesBusy # {} \/ bootHook.pc # "off"
           b == [book EXCEPT !.amiss = busy]
<1>1. /\ Note(b) /\ UNCHANGED <<pendingFile, claimedFile, bootHook>>
  BY DEF Look
<1>2. busy \in BOOLEAN /\ book \in Books /\ pendingFile \in Files /\ claimedFile \in Files
  BY DEF DigestInv, DigestTypes, Books
<1>3. RetriesBusy = {} => NoRetry
  BY DEF RetriesBusy, NoRetry
<1>4. ~busy => ~book.amiss /\ NoRetry /\ bootHook.pc = "off"
  BY <1>3
<1> HIDE DEF busy
<1>5. /\ b \in Books /\ b.kills = book.kills /\ b.owed = book.owed /\ b.amiss = busy
      /\ b.shown = book.shown /\ b.failed = book.failed /\ b.cut = book.cut
  BY <1>2 DEF Books
<1> HIDE DEF b
<1>6. PICK pc \in {"claim", "stat"} : /\ Goes(r, pc)
                                      /\ pc = "claim" => Readable(pendingFile)
                                      /\ pc = "stat" => ~Readable(pendingFile) /\ claimedFile.here
  BY DEF Look
<1> DEFINE h == [retryHook[r] EXCEPT !.pc = pc]
<1>7. h \in Retries /\ h.pc = pc /\ retryHook' = [retryHook EXCEPT ![r] = h]
  <2>1. pc \in RetrySteps /\ Goes(r, pc)
    BY <1>6 DEF RetrySteps
  <2> QED BY <2>1, GoesIs
<1> HIDE DEF h
<1>8. book' \in Books /\ (Orderly(book') => book' = b /\ Orderly(b))
  BY <1>1, <1>5, NoteIs
<1>9. ASSUME Orderly(book')
      PROVE  /\ Alone(r) /\ AtRest(pendingFile, claimedFile, book') /\ Covered(pendingFile, claimedFile, book')
             /\ RetryKeeps(h, pendingFile, claimedFile, book')
             /\ pendingFile.open = RetryOpens(h, r) /\ claimedFile.open = {}
  <2>1. book' = b /\ ~busy /\ Orderly(book)
    BY <1>4, <1>5, <1>8, <1>9 DEF Orderly
  <2>2. Alone(r)
    BY <1>4, <2>1 DEF Alone, NoRetry
  <2>3. AtRest(pendingFile, claimedFile, book) /\ Covered(pendingFile, claimedFile, book)
    BY <1>4, <2>1, WhenOrderly DEF InWrite
  <2>4. pc = "stat" => book.kills # 0
    BY <1>4, <1>6, <2>1, WhenOrderly
  <2>5. RetryKeeps(h, pendingFile, claimedFile, b)
    BY <1>5, <1>6, <1>7, <2>4 DEF RetryKeeps
  <2>6. pendingFile.open = {} /\ claimedFile.open = {}
    BY <1>4, <2>1, WhenOrderly DEF Opened, BootOpens, InWrite, NoRetry
  <2>7. AtRest(pendingFile, claimedFile, b) /\ Covered(pendingFile, claimedFile, b)
    BY <1>5, <2>3 DEF AtRest, Covered
  <2>8. RetryOpens(h, r) = {}
    BY <1>7 DEF RetryOpens
  <2> QED BY <2>1, <2>2, <2>5, <2>6, <2>7, <2>8
<1>10. h.pc # "off" /\ TriesLeft(h)
  BY <1>7 DEF TriesLeft
<1> QED BY <1>1, <1>2, <1>7, <1>8, <1>9, <1>10, RetryMoves

(* It looks how old the claim is.                                           *)
LEMMA StatClaimOK == ASSUME DigestInv, NEW r \in Prompts, StatClaim(r) PROVE DigestInv'
<1>1. retryHook[r].pc = "stat" /\ UNCHANGED <<pendingFile, claimedFile, bootHook, book>>
  BY DEF StatClaim
<1>2. PICK pc \in {"recover", "off"} : Goes(r, pc)
  BY DEF StatClaim
<1> DEFINE h == [retryHook[r] EXCEPT !.pc = pc]
<1>3. h \in Retries /\ h.pc = pc /\ retryHook' = [retryHook EXCEPT ![r] = h]
  <2>1. pc \in RetrySteps /\ Goes(r, pc)
    BY <1>2 DEF RetrySteps
  <2> QED BY <2>1, GoesIs
<1> HIDE DEF h
<1>4. Orderly(book) => ~Readable(pendingFile) /\ book.kills # 0
  BY <1>1, WhenOrderly DEF RetryKeeps
<1>5. Orderly(book) => RetryKeeps(h, pendingFile, claimedFile, book)
  BY <1>3, <1>4 DEF RetryKeeps
<1>6. h.pc # "write"
  BY <1>3
<1> QED BY <1>1, <1>3, <1>4, <1>5, <1>6, SameFiles

(* A stale claim becomes the marker again, and is claimed if it can be read. *)
LEMMA RecoverOK == ASSUME DigestInv, NEW r \in Prompts, RecoverStaleClaim(r) PROVE DigestInv'
<1>1. retryHook[r].pc = "recover" /\ UNCHANGED <<bootHook, book>>
  BY DEF RecoverStaleClaim
<1>2. book \in Books /\ pendingFile \in Files /\ claimedFile \in Files
  BY DEF DigestInv, DigestTypes
<1>3. Orderly(book) => /\ ~Readable(pendingFile) /\ book.kills # 0 /\ Alone(r) /\ claimedFile.open = {}
                       /\ AtRest(pendingFile, claimedFile, book) /\ Covered(pendingFile, claimedFile, book)
  BY <1>1, OnlyRetry DEF RetryKeeps
<1>4. CASE claimedFile.here
  <2> DEFINE pc == IF Readable(claimedFile) THEN "claim" ELSE "off"
             h == [retryHook[r] EXCEPT !.pc = pc]
  <2>1. pendingFile' = claimedFile /\ claimedFile' = NoFile /\ Goes(r, pc)
    BY <1>4 DEF RecoverStaleClaim
  <2>2. pc \in {"claim", "off"} /\ pc \in RetrySteps /\ (pc = "claim" => Readable(claimedFile))
    BY DEF RetrySteps
  <2> HIDE DEF pc
  <2>3. h \in Retries /\ h.pc = pc /\ retryHook' = [retryHook EXCEPT ![r] = h]
    BY <2>1, <2>2, GoesIs
  <2> HIDE DEF h
  <2>4. Orderly(book) => /\ AtRest(pendingFile', claimedFile', book) /\ Covered(pendingFile', claimedFile', book)
                         /\ RetryKeeps(h, pendingFile', claimedFile', book)
                         /\ pendingFile'.open = RetryOpens(h, r) /\ claimedFile'.open = {}
    <3>1. book.failed \in Nat
      BY <1>2, Limits DEF Books
    <3>2. Orderly(book) => AtRest(claimedFile, NoFile, book) /\ Covered(claimedFile, NoFile, book)
      BY <1>3, <3>1, NoFileIs DEF AtRest, Covered, Readable
    <3>3. RetryKeeps(h, claimedFile, NoFile, book)
      BY <2>2, <2>3 DEF RetryKeeps
    <3>4. RetryOpens(h, r) = {}
      BY <2>2, <2>3 DEF RetryOpens
    <3> QED BY <1>3, <2>1, <3>2, <3>3, <3>4, NoFileIs
  <2>5. /\ pendingFile' \in Files /\ claimedFile' \in Files /\ book' \in Books /\ ~claimedFile'.here
        /\ TriesLeft(h)
    BY <1>1, <1>2, <2>1, <2>2, <2>3, NoFileIs DEF TriesLeft
  <2> QED BY <1>1, <1>3, <2>3, <2>4, <2>5, RetryMoves
<1>5. CASE ~claimedFile.here
  <2> DEFINE h == [retryHook[r] EXCEPT !.pc = "off"]
  <2>1. Goes(r, "off") /\ UNCHANGED <<pendingFile, claimedFile>>
    BY <1>5 DEF RecoverStaleClaim
  <2>2. h \in Retries /\ h.pc = "off" /\ retryHook' = [retryHook EXCEPT ![r] = h]
    BY <2>1, GoesIs DEF RetrySteps
  <2> HIDE DEF h
  <2> QED BY <1>1, <1>5, <2>1, <2>2, OffKeeps, SameFiles
<1> QED BY <1>4, <1>5

(* The marker becomes the claim; a claim left behind had nothing of its own. *)
LEMMA ClaimOK == ASSUME DigestInv, NEW r \in Prompts, ClaimMarker(r) PROVE DigestInv'
<1>1. retryHook[r].pc = "claim" /\ UNCHANGED <<bootHook, book>>
  BY DEF ClaimMarker
<1>2. book \in Books /\ pendingFile \in Files /\ claimedFile \in Files
  BY DEF DigestInv, DigestTypes
<1>3. Orderly(book) => /\ Readable(pendingFile) /\ Alone(r) /\ pendingFile.open = {}
                       /\ AtRest(pendingFile, claimedFile, book) /\ Covered(pendingFile, claimedFile, book)
  BY <1>1, OnlyRetry DEF RetryKeeps, RetryOpens
<1>4. CASE pendingFile.here
  <2> DEFINE h == [retryHook[r] EXCEPT !.pc = "touch"]
  <2>1. claimedFile' = pendingFile /\ pendingFile' = NoFile /\ Goes(r, "touch")
    BY <1>4 DEF ClaimMarker
  <2>2. h \in Retries /\ h.pc = "touch" /\ retryHook' = [retryHook EXCEPT ![r] = h]
    BY <2>1, GoesIs DEF RetrySteps
  <2> HIDE DEF h
  <2>3. Orderly(book) => /\ AtRest(pendingFile', claimedFile', book) /\ Covered(pendingFile', claimedFile', book)
                         /\ RetryKeeps(h, pendingFile', claimedFile', book)
                         /\ pendingFile'.open = RetryOpens(h, r) /\ claimedFile'.open = {}
    <3>1. book.failed \in Nat
      BY <1>2, Limits DEF Books
    <3>2. Orderly(book) => AtRest(NoFile, pendingFile, book)
      BY <1>3, <3>1, NoFileIs DEF AtRest, Readable
    <3>3. Orderly(book) => Covered(NoFile, pendingFile, book)
      BY <1>3 DEF AtRest, Covered
    <3>4. Orderly(book) => RetryKeeps(h, NoFile, pendingFile, book)
      BY <1>3, <2>2, NoFileIs DEF RetryKeeps
    <3>5. RetryOpens(h, r) = {}
      BY <2>2 DEF RetryOpens
    <3> QED BY <1>3, <2>1, <3>2, <3>3, <3>4, <3>5, NoFileIs
  <2>4. /\ pendingFile' \in Files /\ claimedFile' \in Files /\ book' \in Books /\ h.pc # "off"
        /\ TriesLeft(h)
    BY <1>1, <1>2, <2>1, <2>2, NoFileIs DEF TriesLeft
  <2> QED BY <1>1, <1>3, <2>2, <2>3, <2>4, RetryMoves
<1>5. CASE ~pendingFile.here
  <2> DEFINE h == [retryHook[r] EXCEPT !.pc = "off"]
  <2>1. Goes(r, "off") /\ UNCHANGED <<pendingFile, claimedFile>>
    BY <1>5 DEF ClaimMarker
  <2>2. h \in Retries /\ h.pc = "off" /\ retryHook' = [retryHook EXCEPT ![r] = h]
    BY <2>1, GoesIs DEF RetrySteps
  <2> HIDE DEF h
  <2>3. ~Readable(pendingFile)
    BY <1>2, <1>5, FileIs
  <2> QED BY <1>1, <1>3, <2>1, <2>2, <2>3, OffKeeps, SameFiles
<1> QED BY <1>4, <1>5

(* The claim gets a new time stamp.                                         *)
LEMMA TouchOK == ASSUME DigestInv, NEW r \in Prompts, TouchClaim(r) PROVE DigestInv'
<1> DEFINE h == [retryHook[r] EXCEPT !.pc = "read"]
<1>1. /\ retryHook[r].pc = "touch" /\ UNCHANGED <<pendingFile, bootHook, book>> /\ Goes(r, "read")
      /\ claimedFile' = IF claimedFile.here THEN [claimedFile EXCEPT !.mtime = 0] ELSE NoFile
  BY DEF TouchClaim
<1>2. book \in Books /\ pendingFile \in Files /\ claimedFile \in Files
  BY DEF DigestInv, DigestTypes
<1>3. h \in Retries /\ h.pc = "read" /\ retryHook' = [retryHook EXCEPT ![r] = h]
  BY <1>1, GoesIs DEF RetrySteps
<1> HIDE DEF h
<1>4. /\ claimedFile' \in Files /\ claimedFile'.here = claimedFile.here
      /\ claimedFile'.parts = claimedFile.parts /\ claimedFile'.attempts = claimedFile.attempts
      /\ claimedFile'.open = claimedFile.open
  <2>1. CASE claimedFile.here
    <3>1. claimedFile \in Theres /\ claimedFile' = [claimedFile EXCEPT !.mtime = 0]
      BY <1>1, <1>2, <2>1, FileIs
    <3> QED BY <3>1, Limits DEF Files, Theres
  <2>2. CASE ~claimedFile.here
    BY <1>1, <1>2, <2>2, FileIs, NoFileIs
  <2> QED BY <2>1, <2>2
<1>5. Orderly(book) => /\ ~pendingFile.here /\ Readable(claimedFile) /\ Alone(r)
                       /\ pendingFile.open = {} /\ claimedFile.open = {}
                       /\ AtRest(pendingFile, claimedFile, book) /\ Covered(pendingFile, claimedFile, book)
  BY <1>1, OnlyRetry DEF RetryKeeps, RetryOpens
<1>6. Orderly(book) => /\ AtRest(pendingFile, claimedFile', book) /\ Covered(pendingFile, claimedFile', book)
                       /\ RetryKeeps(h, pendingFile, claimedFile', book)
  BY <1>3, <1>4, <1>5 DEF AtRest, Covered, RetryKeeps, Readable
<1>7. pendingFile' \in Files /\ book' \in Books /\ h.pc # "off" /\ TriesLeft(h) /\ RetryOpens(h, r) = {}
  BY <1>1, <1>2, <1>3 DEF TriesLeft, RetryOpens
<1> QED BY <1>1, <1>3, <1>4, <1>5, <1>6, <1>7, RetryMoves

(* The claim is read.                                                       *)
LEMMA ReadOK == ASSUME DigestInv, NEW r \in Prompts, ReadClaim(r) PROVE DigestInv'
<1> DEFINE h == IF Readable(claimedFile)
                THEN [RetryOff EXCEPT !.pc = "cli", !.parts = claimedFile.parts,
                                      !.attempts = claimedFile.attempts]
                ELSE RetryOff
<1>1. /\ retryHook[r].pc = "read" /\ UNCHANGED <<pendingFile, claimedFile, bootHook, book>>
      /\ retryHook' = [retryHook EXCEPT ![r] = h]
  BY DEF ReadClaim
<1>2. claimedFile \in Files
  BY DEF DigestInv, DigestTypes
<1>3. claimedFile.parts \in SUBSET Parts /\ claimedFile.attempts \in Tries
  BY <1>2, FileIs
<1>4. Orderly(book) => ~pendingFile.here /\ Readable(claimedFile)
  BY <1>1, WhenOrderly DEF RetryKeeps
<1>5. RetryOff \in Retries /\ RetryOff.pc = "off"
  BY Limits DEF RetryOff, Retries, RetrySteps
<1>6. CASE Readable(claimedFile)
  <2>1. h = [RetryOff EXCEPT !.pc = "cli", !.parts = claimedFile.parts, !.attempts = claimedFile.attempts]
    BY <1>6
  <2> HIDE DEF h
  <2>2. h \in Retries /\ h.pc = "cli" /\ h.parts = claimedFile.parts /\ h.attempts = claimedFile.attempts
    BY <1>3, <1>5, <2>1 DEF Retries, RetrySteps
  <2>3. Orderly(book) => RetryKeeps(h, pendingFile, claimedFile, book)
    BY <1>4, <2>2 DEF RetryKeeps
  <2> QED BY <1>1, <2>2, <2>3, SameFiles
<1>7. CASE ~Readable(claimedFile)
  <2>1. h = RetryOff
    BY <1>7
  <2> HIDE DEF h
  <2> QED BY <1>1, <1>4, <1>5, <1>7, <2>1, OffKeeps, SameFiles
<1> QED BY <1>6, <1>7

(* The tool is looked up; without one the claim becomes the marker again.   *)
LEMMA ResolveOK == ASSUME DigestInv, NEW r \in Prompts, NEW found \in BOOLEAN, ResolveCli(r, found) PROVE DigestInv'
<1>1. retryHook[r].pc = "cli" /\ UNCHANGED <<bootHook, book>>
  BY DEF ResolveCli
<1>2. book \in Books /\ pendingFile \in Files /\ claimedFile \in Files
  BY DEF DigestInv, DigestTypes
<1>3. Orderly(book) => /\ ~pendingFile.here /\ Readable(claimedFile) /\ Alone(r) /\ claimedFile.open = {}
                       /\ retryHook[r].parts = claimedFile.parts /\ retryHook[r].attempts = claimedFile.attempts
                       /\ AtRest(pendingFile, claimedFile, book) /\ Covered(pendingFile, claimedFile, book)
  BY <1>1, OnlyRetry DEF RetryKeeps
<1>4. CASE found
  <2> DEFINE h == [retryHook[r] EXCEPT !.pc = "fetch"]
  <2>1. Goes(r, "fetch") /\ UNCHANGED <<pendingFile, claimedFile>>
    BY <1>4 DEF ResolveCli
  <2>2. /\ h \in Retries /\ h.pc = "fetch" /\ retryHook' = [retryHook EXCEPT ![r] = h]
        /\ h.parts = retryHook[r].parts /\ h.attempts = retryHook[r].attempts
    BY <2>1, GoesIs DEF RetrySteps
  <2> HIDE DEF h
  <2>3. Orderly(book) => RetryKeeps(h, pendingFile, claimedFile, book)
    BY <1>3, <2>2 DEF RetryKeeps
  <2> QED BY <1>1, <2>1, <2>2, <2>3, SameFiles
<1>5. CASE ~found
  <2> DEFINE h == [retryHook[r] EXCEPT !.pc = "off"]
  <2>1. /\ Goes(r, "off") /\ claimedFile' = NoFile
        /\ pendingFile' = IF claimedFile.here THEN claimedFile ELSE pendingFile
    BY <1>5 DEF ResolveCli
  <2>2. h \in Retries /\ h.pc = "off" /\ retryHook' = [retryHook EXCEPT ![r] = h]
    BY <2>1, GoesIs DEF RetrySteps
  <2> HIDE DEF h
  <2>3. Orderly(book) => /\ AtRest(pendingFile', claimedFile', book) /\ Covered(pendingFile', claimedFile', book)
                         /\ RetryKeeps(h, pendingFile', claimedFile', book)
                         /\ pendingFile'.open = RetryOpens(h, r) /\ claimedFile'.open = {}
    <3>1. ~Readable(pendingFile) \/ pendingFile.here
      BY <1>2, FileIs
    <3>2. book.failed \in Nat
      BY <1>2, Limits DEF Books
    <3>3. Orderly(book) => AtRest(claimedFile, NoFile, book) /\ Covered(claimedFile, NoFile, book)
      BY <1>3, <3>1, <3>2, NoFileIs DEF AtRest, Covered, Readable
    <3>4. Orderly(book) => pendingFile' = claimedFile
      BY <1>2, <1>3, <2>1, FileIs
    <3>5. RetryOpens(h, r) = {}
      BY <2>2 DEF RetryOpens
    <3> QED BY <1>3, <2>1, <2>2, <3>3, <3>4, <3>5, OffKeeps, NoFileIs
  <2>4. /\ pendingFile' \in Files /\ claimedFile' \in Files /\ book' \in Books /\ ~claimedFile'.here
        /\ TriesLeft(h)
    BY <1>1, <1>2, <2>1, <2>2, NoFileIs DEF TriesLeft
  <2> QED BY <1>1, <1>3, <2>2, <2>3, <2>4, RetryMoves
<1> QED BY <1>4, <1>5

(* A part is fetched, or not.                                               *)
LEMMA RetryFetchOK == ASSUME DigestInv, NEW r \in Prompts, NEW ok \in BOOLEAN, RetryFetch(r, ok) PROVE DigestInv'
<1> DEFINE got == retryHook[r].got \cup (IF ok THEN {NextPart(r)} ELSE {})
           pc == IF ok /\ got # retryHook[r].parts THEN "fetch" ELSE "emit"
           h == [retryHook[r] EXCEPT !.got = got, !.pc = pc]
<1>1. /\ retryHook[r].pc = "fetch" /\ UNCHANGED <<pendingFile, claimedFile, bootHook, book>>
      /\ retryHook' = [retryHook EXCEPT ![r].got = got, ![r].pc = pc]
  BY DEF RetryFetch
<1>2. retryHook[r] \in Retries
  BY DEF DigestInv, DigestTypes
<1>3. got \in SUBSET Parts
  BY <1>2 DEF Retries, NextPart, Parts
<1>4. pc \in {"fetch", "emit"}
  OBVIOUS
<1> HIDE DEF got, pc
<1>5. retryHook' = [retryHook EXCEPT ![r] = h]
  BY <1>1
<1>6. h \in Retries /\ h.pc = pc /\ h.parts = retryHook[r].parts /\ h.attempts = retryHook[r].attempts
  BY <1>2, <1>3, <1>4 DEF Retries, RetrySteps
<1> HIDE DEF h
<1>7. Orderly(book) => RetryKeeps(retryHook[r], pendingFile, claimedFile, book)
  BY WhenOrderly
<1>8. Orderly(book) => RetryKeeps(h, pendingFile, claimedFile, book)
  BY <1>1, <1>4, <1>6, <1>7 DEF RetryKeeps
<1>9. h.pc # "off" /\ h.pc # "write"
  BY <1>4, <1>6
<1> QED BY <1>1, <1>5, <1>6, <1>8, <1>9, SameFiles

(* What was fetched is printed.                                             *)
LEMMA RetryEmitOK == ASSUME DigestInv, NEW r \in Prompts, RetryEmit(r) PROVE DigestInv'
<1> DEFINE h == [retryHook[r] EXCEPT !.pc = "finish"]
           b == [book EXCEPT !.shown = @ \cup retryHook[r].got]
<1>1. /\ retryHook[r].pc = "emit" /\ UNCHANGED <<pendingFile, claimedFile, bootHook>> /\ Goes(r, "finish")
      /\ Note(b)
  BY DEF RetryEmit
<1>2. /\ book \in Books /\ pendingFile \in Files /\ claimedFile \in Files
      /\ retryHook[r].got \in SUBSET Parts
  BY DEF DigestInv, DigestTypes, Retries
<1>3. /\ h \in Retries /\ h.pc = "finish" /\ retryHook' = [retryHook EXCEPT ![r] = h]
      /\ h.parts = retryHook[r].parts /\ h.attempts = retryHook[r].attempts /\ h.got = retryHook[r].got
  BY <1>1, GoesIs DEF RetrySteps
<1> HIDE DEF h
<1>4. /\ b \in Books /\ b.kills = book.kills /\ b.owed = book.owed
      /\ b.amiss = book.amiss /\ b.failed = book.failed /\ b.cut = book.cut
      /\ b.shown = book.shown \cup retryHook[r].got
  BY <1>2 DEF Books
<1> HIDE DEF b
<1>5. book' \in Books /\ (Orderly(book') => book' = b /\ Orderly(book))
  BY <1>1, <1>4, NoteIs DEF Orderly
<1>6. Orderly(book) => /\ ~pendingFile.here /\ Readable(claimedFile) /\ Alone(r)
                       /\ pendingFile.open = {} /\ claimedFile.open = {}
                       /\ retryHook[r].parts = claimedFile.parts /\ retryHook[r].attempts = claimedFile.attempts
                       /\ AtRest(pendingFile, claimedFile, book) /\ Covered(pendingFile, claimedFile, book)
  BY <1>1, OnlyRetry DEF RetryKeeps, RetryOpens
<1>7. Orderly(book) => /\ AtRest(pendingFile, claimedFile, b) /\ Covered(pendingFile, claimedFile, b)
  BY <1>4, <1>6 DEF AtRest, Covered
<1>8. Orderly(book) => RetryKeeps(h, pendingFile, claimedFile, b)
  BY <1>3, <1>4, <1>6 DEF RetryKeeps
<1>9. h.pc # "off" /\ TriesLeft(h) /\ RetryOpens(h, r) = {}
  BY <1>3 DEF TriesLeft, RetryOpens
<1> QED BY <1>1, <1>2, <1>3, <1>5, <1>6, <1>7, <1>8, <1>9, RetryMoves

(* What is left goes into a marker, or is given up after the last try.      *)
LEMMA FinishOpenOK == ASSUME DigestInv, NEW r \in Prompts, NEW opened \in BOOLEAN, FinishOpen(r, opened) PROVE DigestInv'
<1> DEFINE left == LeftOver(r)
           n == retryHook[r].attempts
           again == left # {} /\ n + 1 < MaxRetries
           pc == IF again /\ opened THEN "write" ELSE "unlink"
           h == [retryHook[r] EXCEPT !.pc = pc]
           fails == IF left # {} /\ book.failed < MaxRetries THEN book.failed + 1 ELSE book.failed
           owes == IF book.failed >= MaxRetries - 1 THEN book.owed \ left ELSE book.owed
           miss == book.amiss \/ (again /\ ~opened)
           b == [book EXCEPT !.failed = fails, !.owed = owes, !.amiss = miss]
<1>1. /\ retryHook[r].pc = "finish" /\ UNCHANGED <<claimedFile, bootHook>> /\ Goes(r, pc) /\ Note(b)
      /\ IF again /\ opened THEN OpenMarker(r) ELSE pendingFile' = pendingFile
  BY DEF FinishOpen, RetryAgain
<1>2. /\ book \in Books /\ pendingFile \in Files /\ claimedFile \in Files /\ DigestTypes
      /\ left \in SUBSET Parts /\ n \in Tries /\ n \in Nat
  BY Limits DEF DigestInv, DigestTypes, Retries, LeftOver
<1>3. /\ h \in Retries /\ h.pc = pc /\ retryHook' = [retryHook EXCEPT ![r] = h]
      /\ h.parts = retryHook[r].parts /\ h.attempts = n /\ h.got = retryHook[r].got
  <2>1. pc \in RetrySteps
    BY DEF RetrySteps
  <2> HIDE DEF pc
  <2> QED BY <1>1, <2>1, GoesIs
<1>4. /\ fails \in 0..MaxRetries /\ book.failed <= fails /\ book.failed \in Nat
      /\ again /\ n <= book.failed => n + 1 <= fails
  <2>1. book.failed \in Nat /\ book.failed <= MaxRetries /\ MaxRetries \in Nat
    BY <1>2, Limits DEF Books
  <2>2. CASE left # {} /\ book.failed < MaxRetries
    BY <1>2, <2>1, <2>2
  <2>3. CASE ~(left # {} /\ book.failed < MaxRetries)
    BY <1>2, <2>1, <2>3
  <2> QED BY <2>2, <2>3
<1>5. /\ owes \subseteq book.owed /\ owes \in SUBSET Parts /\ book.owed \ owes \subseteq left
      /\ ~(n + 1 < MaxRetries) /\ n <= book.failed => owes = book.owed \ left
  <2>1. book.owed \in SUBSET Parts /\ MaxRetries \in Nat
    BY <1>2, Limits DEF Books
  <2>2. ~(n + 1 < MaxRetries) /\ n <= book.failed => book.failed >= MaxRetries - 1
    BY <1>2, <1>4, <2>1
  <2> QED BY <2>1, <2>2
<1>6. miss \in BOOLEAN /\ (~miss => ~book.amiss /\ (again => opened))
  BY <1>2 DEF Books
<1>7. Orderly(book) => /\ ~pendingFile.here /\ Alone(r)
                       /\ pendingFile.open = {} /\ claimedFile.open = {}
                       /\ retryHook[r].parts = claimedFile.parts /\ n = claimedFile.attempts
                       /\ retryHook[r].got \subseteq book.shown
                       /\ AtRest(pendingFile, claimedFile, book) /\ Covered(pendingFile, claimedFile, book)
  BY <1>1, OnlyRetry DEF RetryKeeps, RetryOpens
<1>8. Orderly(book) => claimedFile.parts \subseteq left \cup book.shown /\ n <= book.failed
  BY <1>7 DEF AtRest, LeftOver
<1>9. again <=> left # {} /\ n + 1 < MaxRetries
  OBVIOUS
<1>10. pc = IF again /\ opened THEN "write" ELSE "unlink"
  OBVIOUS
<1> HIDE DEF left, n, fails, owes, miss, again, pc, h
<1>11. /\ b \in Books /\ b.kills = book.kills /\ b.owed = owes /\ b.amiss = miss
       /\ b.failed = fails /\ b.shown = book.shown /\ b.cut = book.cut
  BY <1>2, <1>4, <1>5, <1>6 DEF Books
<1> HIDE DEF b
<1>12. book' \in Books /\ (Orderly(book') => book' = b /\ Orderly(book) /\ ~miss)
  BY <1>1, <1>6, <1>11, NoteIs DEF Orderly
<1>13. pendingFile' \in Files /\ claimedFile' \in Files /\ h.pc # "off" /\ TriesLeft(h)
  <2>1. r \in Writers
    BY DEF Writers
  <2>2. pendingFile' \in Files
    BY <1>1, <1>2, <2>1, OpenIs
  <2> QED BY <1>1, <1>2, <1>3, <1>9, <1>10, <2>2 DEF TriesLeft, RetryAgain
<1>14. Orderly(book) => claimedFile.attempts <= fails /\ pendingFile.attempts <= fails
  <2>1. claimedFile.attempts \in Nat /\ pendingFile.attempts \in Nat /\ fails \in Nat
    <3>1. claimedFile.attempts \in Tries /\ pendingFile.attempts \in Tries
      BY <1>2, FileIs
    <3>2. fails \in Nat
      BY <1>4, Limits
    <3> QED BY <3>1, <3>2, Limits
  <2> QED BY <1>4, <1>7, <2>1 DEF AtRest
<1>15. CASE again /\ opened
  <2>1. pendingFile'.parts = {} /\ pendingFile'.attempts = 0 /\ (Orderly(book) => pendingFile'.open = {r})
    <3>1. r \in Writers
      BY DEF Writers
    <3> QED BY <1>1, <1>2, <1>7, <1>15, <3>1, OpenIs
  <2>2. pc = "write" /\ RetryOpens(h, r) = {r}
    BY <1>3, <1>10, <1>15 DEF RetryOpens
  <2>3. fails \in Nat
    BY <1>4, Limits
  <2>4. Orderly(book) => AtRest(pendingFile', claimedFile, b) /\ Covered(pendingFile', claimedFile, b)
    <3>1. pendingFile.parts = {} \/ pendingFile.here
      BY <1>2, FileIs DEF Readable
    <3>2. Orderly(book) => AtRest(pendingFile', claimedFile, b)
      BY <1>11, <1>14, <2>1, <2>3 DEF AtRest, Readable
    <3>3. Orderly(book) => Covered(pendingFile', claimedFile, b)
      BY <1>5, <1>7, <1>11, <2>1, <3>1 DEF Covered
    <3> QED BY <3>2, <3>3
  <2>5. Orderly(book) => RetryKeeps(h, pendingFile', claimedFile, b)
    BY <1>3, <1>4, <1>7, <1>8, <1>11, <1>15, <2>1, <2>2 DEF RetryKeeps
  <2> QED BY <1>1, <1>3, <1>7, <1>12, <1>13, <2>1, <2>2, <2>4, <2>5, RetryMoves
<1>16. CASE ~(again /\ opened)
  <2>1. pendingFile' = pendingFile
    BY <1>1, <1>16
  <2>2. Orderly(book) /\ ~miss => owes \cap left = {}
    BY <1>5, <1>6, <1>8, <1>9, <1>16
  <2>3. pc = "unlink" /\ RetryOpens(h, r) = {}
    <3>1. pc = "unlink"
      BY <1>10, <1>16
    <3> QED BY <1>3, <3>1 DEF RetryOpens
  <2>4. Orderly(book) => AtRest(pendingFile, claimedFile, b)
    BY <1>5, <1>7, <1>11, <1>14 DEF AtRest
  <2>5. Orderly(book) => Covered(pendingFile, claimedFile, b)
    BY <1>5, <1>7, <1>11 DEF Covered
  <2>6. Orderly(book) /\ ~miss => RetryKeeps(h, pendingFile, claimedFile, b)
    BY <1>3, <1>8, <1>11, <2>2, <2>3 DEF RetryKeeps
  <2> QED BY <1>1, <1>3, <1>7, <1>12, <1>13, <2>1, <2>3, <2>4, <2>5, <2>6, RetryMoves
<1> QED BY <1>15, <1>16

(* A process writes what it opened.                                         *)
LEMMA WrittenIs ==
  ASSUME DigestTypes, NEW w \in Writers, NEW m \in Theres, NEW written \in BOOLEAN,
         WriteMarker(w, m, written)
  PROVE  /\ pendingFile' \in Files /\ claimedFile' \in Files
         /\ claimedFile.open = {} => claimedFile' = claimedFile
         /\ written /\ pendingFile.open = {w} /\ pendingFile.parts = {} =>
              /\ pendingFile'.open = {} /\ pendingFile'.parts = m.parts
              /\ pendingFile'.attempts = m.attempts
<1> DEFINE p == IF written THEN m ELSE pendingFile
           c == IF written THEN m ELSE claimedFile
<1>1. pendingFile' \in Landed(pendingFile, w, p) /\ claimedFile' \in Landed(claimedFile, w, c)
  BY DEF WriteMarker
<1>2. pendingFile \in Files /\ claimedFile \in Files /\ m \in Files
  BY DEF DigestTypes, Files
<1>3. p \in Files /\ c \in Files /\ (w \in pendingFile.open => p \in Theres)
      /\ (w \in claimedFile.open => c \in Theres) /\ (written => p = m)
  BY <1>2, FileIs
<1> HIDE DEF p, c
<1> QED BY <1>1, <1>2, <1>3, LandedIs

(* The marker is written again, with a try less.                            *)
LEMMA FinishWriteOK == ASSUME DigestInv, NEW r \in Prompts, NEW written \in BOOLEAN, FinishWrite(r, written) PROVE DigestInv'
<1> DEFINE h == [retryHook[r] EXCEPT !.pc = "unlink"]
           left == LeftOver(r)
           n == retryHook[r].attempts
           k == n + 1
           m == Marker(left, k, Never)
           miss == book.amiss \/ ~written
           b == [book EXCEPT !.amiss = miss]
<1>1. /\ retryHook[r].pc = "write" /\ UNCHANGED bootHook /\ Goes(r, "unlink") /\ Note(b)
      /\ WriteMarker(r, m, written)
  BY DEF FinishWrite, NextAttempts
<1>2. /\ book \in Books /\ pendingFile \in Files /\ claimedFile \in Files /\ DigestTypes
      /\ left \in SUBSET Parts /\ n \in Tries /\ n \in Nat /\ TriesLeft(retryHook[r])
  BY Limits DEF DigestInv, DigestTypes, Retries, LeftOver
<1>3. /\ h \in Retries /\ h.pc = "unlink" /\ retryHook' = [retryHook EXCEPT ![r] = h]
      /\ TriesLeft(h) /\ RetryOpens(h, r) = {}
  BY <1>1, GoesIs DEF RetrySteps, TriesLeft, RetryOpens
<1>4. k \in Tries
  BY <1>1, <1>2, Limits DEF Tries, TriesLeft, RetryAgain
<1>5. miss \in BOOLEAN /\ (~miss => ~book.amiss /\ written)
  BY <1>2 DEF Books
<1>6. Orderly(book) => /\ Alone(r) /\ pendingFile.open = {r} /\ claimedFile.open = {}
                       /\ retryHook[r].parts = claimedFile.parts /\ k <= book.failed
                       /\ retryHook[r].got \subseteq book.shown /\ pendingFile.parts = {}
                       /\ AtRest(pendingFile, claimedFile, book) /\ Covered(pendingFile, claimedFile, book)
  BY <1>1, OnlyRetry DEF RetryKeeps, RetryOpens
<1>7. Orderly(book) => claimedFile.parts \subseteq left \cup book.shown
  BY <1>6 DEF LeftOver
<1> HIDE DEF h, left, n, k, miss
<1>8. m \in Theres /\ m.parts = left /\ m.attempts = k
  <2>1. Never \in Ages \cup {Never} /\ left \in SUBSET Parts /\ k \in Tries
    BY <1>2, <1>4
  <2> HIDE DEF m
  <2>2. /\ Marker(left, k, Never) \in Theres /\ Marker(left, k, Never).parts = left
        /\ Marker(left, k, Never).attempts = k
    BY <2>1, MarkerIs
  <2> QED BY <2>2 DEF m
<1>9. /\ b \in Books /\ b.kills = book.kills /\ b.owed = book.owed /\ b.amiss = miss
      /\ b.failed = book.failed /\ b.shown = book.shown /\ b.cut = book.cut
  BY <1>2, <1>5 DEF Books
<1> HIDE DEF b, m
<1>10. book' \in Books /\ (Orderly(book') => book' = b /\ Orderly(book) /\ written)
  BY <1>1, <1>5, <1>9, NoteIs DEF Orderly
<1>11. /\ pendingFile' \in Files /\ claimedFile' \in Files
       /\ Orderly(book) => claimedFile' = claimedFile
       /\ written /\ Orderly(book) =>
            pendingFile'.open = {} /\ pendingFile'.parts = left /\ pendingFile'.attempts = k
  <2>1. r \in Writers
    BY DEF Writers
  <2> QED BY <1>1, <1>2, <1>6, <1>8, <2>1, WrittenIs
<1>12. written /\ Orderly(book) =>
         /\ AtRest(pendingFile', claimedFile, b) /\ Covered(pendingFile', claimedFile, b)
         /\ RetryKeeps(h, pendingFile', claimedFile, b)
  <2>1. written /\ Orderly(book) => AtRest(pendingFile', claimedFile, b)
    BY <1>6, <1>7, <1>9, <1>11 DEF AtRest
  <2>2. written /\ Orderly(book) => Covered(pendingFile', claimedFile, b)
    BY <1>6, <1>9, <1>11 DEF Covered
  <2>3. written /\ Orderly(book) => RetryKeeps(h, pendingFile', claimedFile, b)
    BY <1>3, <1>7, <1>9, <1>11 DEF RetryKeeps
  <2> QED BY <2>1, <2>2, <2>3
<1>13. h.pc # "off"
  BY <1>3
<1> QED BY <1>1, <1>3, <1>6, <1>10, <1>11, <1>12, <1>13, RetryMoves

(* The claim is dropped.                                                    *)
LEMMA FinishUnlinkOK == ASSUME DigestInv, NEW r \in Prompts, FinishUnlink(r) PROVE DigestInv'
<1>1. /\ retryHook[r].pc = "unlink" /\ claimedFile' = NoFile /\ UNCHANGED <<pendingFile, bootHook, book>>
      /\ retryHook' = [retryHook EXCEPT ![r] = RetryOff]
  BY DEF FinishUnlink
<1>2. book \in Books /\ pendingFile \in Files
  BY DEF DigestInv, DigestTypes
<1>3. RetryOff \in Retries /\ RetryOff.pc = "off" /\ TriesLeft(RetryOff) /\ RetryOpens(RetryOff, r) = {}
  BY Limits DEF RetryOff, Retries, RetrySteps, TriesLeft, RetryOpens
<1>4. Orderly(book) => /\ claimedFile.parts \cap book.owed \subseteq pendingFile.parts \cup book.shown
                       /\ AtRest(pendingFile, claimedFile, book) /\ Covered(pendingFile, claimedFile, book)
                       /\ Alone(r) /\ pendingFile.open = {}
  BY <1>1, OnlyRetry DEF RetryKeeps, RetryOpens
<1>5. book.failed \in Nat
  BY <1>2, Limits DEF Books
<1>6. Orderly(book) => AtRest(pendingFile, NoFile, book) /\ Covered(pendingFile, NoFile, book)
  BY <1>4, <1>5, NoFileIs DEF AtRest, Covered
<1>7. NoFile \in Files /\ ~NoFile.here /\ NoFile.open = {}
  BY NoFileIs
<1> QED BY <1>1, <1>2, <1>3, <1>4, <1>6, <1>7, OffKeeps, RetryMoves

-----------------------------------------------------------------------------
(* The start hook                                                           *)

(* The hooks when they are off.                                             *)
LEMMA OffIs ==
  /\ BootOff \in Boots /\ BootOff.pc = "off"
  /\ RetryOff \in Retries /\ RetryOff.pc = "off" /\ TriesLeft(RetryOff)
BY Limits DEF RetryOff, Retries, RetrySteps, BootOff, Boots, BootSteps, TriesLeft

(* A file before and after pruning.                                         *)
LEMMA PrunedIs ==
  ASSUME NEW f \in Files, NEW g \in Pruned(f)
  PROVE  g \in Files /\ (g = f \/ g = NoFile)
BY NoFileIs DEF Pruned

(* A start prunes and reads the marker; what only a pruned file held is let *)
(* go.                                                                      *)
LEMMA BootSetupOK == ASSUME DigestInv, NEW compact \in BOOLEAN, BootSetup(compact) PROVE DigestInv'
<1> DEFINE expected == IF compact THEN {"core"} ELSE Parts
           before == expected \cup pendingFile'.parts
           lost == (pendingFile.parts \cup claimedFile.parts) \ (pendingFile'.parts \cup claimedFile'.parts)
           busy == book.amiss \/ RetriesBusy # {}
           owes == book.owed \ lost
           n == book.starts + 1
           b == [book EXCEPT !.starts = n, !.owed = owes, !.amiss = busy]
<1>1. /\ bootHook.pc = "off" /\ UNCHANGED retryHook /\ Note(b)
      /\ bootHook' = [BootOff EXCEPT !.pc = "open", !.expected = expected, !.before = before]
      /\ pendingFile' \in Pruned(pendingFile) /\ claimedFile' \in Pruned(claimedFile)
  BY DEF BootSetup
<1>2. book \in Books /\ pendingFile \in Files /\ claimedFile \in Files
  BY DEF DigestInv, DigestTypes
<1>3. /\ pendingFile' \in Files /\ (pendingFile' = pendingFile \/ pendingFile' = NoFile)
      /\ claimedFile' \in Files /\ (claimedFile' = claimedFile \/ claimedFile' = NoFile)
  BY <1>1, <1>2, PrunedIs
<1>4. expected \in SUBSET Parts
  BY DEF Parts
<1>5. before \in SUBSET Parts /\ expected \subseteq before /\ pendingFile'.parts \subseteq before
  BY <1>3, <1>4, FileIs
<1>6. owes \in SUBSET Parts /\ owes = book.owed \ lost /\ n \in Nat
  BY <1>2 DEF Books
<1>7. busy \in BOOLEAN /\ (~busy => ~book.amiss /\ NoRetry)
  BY <1>2 DEF Books, RetriesBusy, NoRetry
<1>8. \A x \in lost : x \notin pendingFile'.parts /\ x \notin claimedFile'.parts
  OBVIOUS
<1>9. \A x : x \in pendingFile.parts \cup claimedFile.parts /\ x \notin lost =>
         x \in pendingFile'.parts \cup claimedFile'.parts
  OBVIOUS
<1> HIDE DEF expected, before, lost, busy, owes, n
<1>10. /\ b \in Books /\ b.amiss = busy /\ b.kills = book.kills /\ b.failed = book.failed
       /\ b.owed = owes /\ b.shown = book.shown /\ b.cut = book.cut
  BY <1>2, <1>6, <1>7 DEF Books
<1> HIDE DEF b
<1>11. book' \in Books /\ (Orderly(book') => book' = b /\ Orderly(book) /\ NoRetry)
  BY <1>1, <1>7, <1>10, NoteIs DEF Orderly
<1>12. /\ bootHook' \in Boots /\ bootHook'.pc = "open"
       /\ bootHook'.before = before /\ bootHook'.expected = expected
  BY <1>1, <1>4, <1>5, OffIs DEF Boots, BootSteps
<1>13. ASSUME Orderly(book')
       PROVE  /\ BootKeeps(bootHook', pendingFile', claimedFile', b)
              /\ Covered(pendingFile', claimedFile', b)
              /\ book.kills = 0 => ~claimedFile'.here
              /\ pendingFile'.open = {} /\ claimedFile'.open = {}
  <2>1. Orderly(book) /\ NoRetry /\ bootHook.pc \notin InWrite
    BY <1>1, <1>11, <1>13 DEF InWrite
  <2>2. AtRest(pendingFile, claimedFile, book) /\ Covered(pendingFile, claimedFile, book)
    BY <1>1, <2>1, WhenOrderly
  <2>3. Opened = {}
    BY <2>1 DEF Opened, BootOpens, NoRetry
  <2>4. pendingFile'.open = {} /\ claimedFile'.open = {}
    BY <1>3, <2>1, <2>3, WhenOrderly, NoFileIs
  <2>5. book.failed \in Nat
    BY <1>2, Limits DEF Books
  <2>6. AtRest(pendingFile', claimedFile', b)
    <3>1. pendingFile'.attempts <= b.failed /\ claimedFile'.attempts <= b.failed
      BY <1>3, <1>10, <2>2, <2>5, NoFileIs DEF AtRest
    <3>2. Readable(pendingFile') => claimedFile'.parts \cap b.owed \subseteq pendingFile'.parts \cup b.shown
      BY <1>3, <1>6, <1>10, <2>2, NoFileIs DEF AtRest, Readable
    <3> QED BY <3>1, <3>2 DEF AtRest
  <2>7. Covered(pendingFile', claimedFile', b)
    BY <1>6, <1>9, <1>10, <2>2 DEF Covered
  <2>8. BootKeeps(bootHook', pendingFile', claimedFile', b)
    BY <1>5, <1>12, <2>6 DEF BootKeeps, InWrite
  <2>9. book.kills = 0 => ~claimedFile'.here
    BY <1>3, <2>1, WhenOrderly, NoFileIs
  <2> QED BY <2>4, <2>7, <2>8, <2>9
<1>14. bootHook'.pc \notin InWrite /\ bootHook'.pc # "off" /\ BootOpens(bootHook') = {}
  BY <1>12 DEF InWrite, BootOpens
<1> QED BY <1>1, <1>3, <1>10, <1>11, <1>12, <1>13, <1>14, BootMoves

(* The fetching begins, with the marker told of it or not.                  *)
LEMMA BeginIs ==
  ASSUME DigestInv, NEW told \in BOOLEAN, BeginFetching(told), bootHook.pc # "off"
  PROVE  LET b == [book EXCEPT !.failed = 0, !.amiss = @ \/ ~told, !.owed = @ \cup bootHook.expected,
                               !.shown = @ \ bootHook.expected, !.cut = @ \ bootHook.expected]
         IN /\ bootHook' \in Boots /\ bootHook'.pc = "fetch core" /\ bootHook'.before = bootHook.before
            /\ book' \in Books
            /\ Orderly(book') => /\ book' = b /\ Orderly(book) /\ told
                                 /\ b.owed = book.owed \cup bootHook.expected
                                 /\ b.shown = book.shown \ bootHook.expected
                                 /\ b.cut = book.cut \ bootHook.expected
                                 /\ b.kills = book.kills
<1> DEFINE miss == book.amiss \/ ~told
           owes == book.owed \cup bootHook.expected
           shows == book.shown \ bootHook.expected
           cuts == book.cut \ bootHook.expected
           b == [book EXCEPT !.failed = 0, !.amiss = miss, !.owed = owes, !.shown = shows, !.cut = cuts]
<1>1. BootGoes("fetch core") /\ Note(b)
  BY DEF BeginFetching
<1>2. book \in Books /\ bootHook \in Boots
  BY DEF DigestInv, DigestTypes
<1>3. /\ miss \in BOOLEAN /\ (~miss => ~book.amiss /\ told)
      /\ owes \in SUBSET Parts /\ shows \in SUBSET Parts /\ cuts \in SUBSET Parts
  BY <1>2 DEF Books, Boots
<1>4. 0 \in 0..MaxRetries
  BY Limits
<1> HIDE DEF miss, owes, shows, cuts
<1>5. b \in Books /\ b.amiss = miss /\ b.owed = owes /\ b.shown = shows /\ b.cut = cuts /\ b.kills = book.kills
  BY <1>2, <1>3, <1>4 DEF Books
<1> HIDE DEF b
<1>6. book' \in Books /\ (Orderly(book') => book' = b /\ Orderly(book) /\ told)
  BY <1>1, <1>3, <1>5, NoteIs DEF Orderly
<1>7. bootHook' \in Boots /\ bootHook'.pc = "fetch core" /\ bootHook'.before = bootHook.before
  BY <1>1, BootGoesIs DEF BootSteps
<1> QED BY <1>5, <1>6, <1>7 DEF miss, owes, shows, cuts, b

(* The marker is emptied, or cannot be opened.                              *)
LEMMA BootOpenOK == ASSUME DigestInv, NEW opened \in BOOLEAN, BootOpen(opened) PROVE DigestInv'
<1>1. bootHook.pc = "open" /\ UNCHANGED <<claimedFile, retryHook>>
  BY DEF BootOpen
<1>2. DigestTypes /\ book \in Books /\ pendingFile \in Files /\ claimedFile \in Files
  BY DEF DigestInv, DigestTypes
<1>3. CASE opened
  <2>1. OpenMarker(Start) /\ BootGoes("write") /\ book' = book
    BY <1>3 DEF BootOpen
  <2>2. /\ pendingFile' \in Files /\ pendingFile'.parts = {} /\ pendingFile'.attempts = 0
        /\ pendingFile.open = {} => pendingFile'.open = {Start}
    <3>1. Start \in Writers
      BY DEF Writers
    <3> QED BY <1>2, <2>1, <3>1, OpenIs
  <2>3. /\ bootHook' \in Boots /\ bootHook'.pc = "write" /\ bootHook'.before = bootHook.before
        /\ bootHook'.expected = bootHook.expected
    BY <2>1, BootGoesIs DEF BootSteps, InWrite
  <2>4. Orderly(book) => /\ NoRetry /\ BootKeeps(bootHook, pendingFile, claimedFile, book)
                         /\ Covered(pendingFile, claimedFile, book) /\ (book.kills = 0 => ~claimedFile.here)
                         /\ pendingFile.open = {} /\ claimedFile.open = {}
    BY <1>1, OnlyBoot DEF InWrite, BootOpens
  <2>5. Orderly(book) => BootKeeps(bootHook', pendingFile', claimedFile, book)
    <3>1. Orderly(book) => /\ bootHook.expected \subseteq bootHook.before
                           /\ pendingFile.parts \subseteq bootHook.before
      BY <1>1, <2>4 DEF BootKeeps
    <3>2. Orderly(book) => book.owed \subseteq book.cut \cup book.shown \cup claimedFile.parts \cup bootHook.before
      BY <2>4, <3>1 DEF Covered
    <3> QED BY <2>2, <2>3, <3>1, <3>2 DEF BootKeeps, InWrite
  <2>6. bootHook'.pc # "off" /\ bootHook'.pc \in InWrite /\ BootOpens(bootHook') = {Start}
    BY <2>3 DEF InWrite, BootOpens
  <2> QED BY <1>1, <1>2, <2>1, <2>2, <2>3, <2>4, <2>5, <2>6, BootMoves
<1>4. CASE ~opened
  <2>1. BeginFetching(FALSE) /\ pendingFile' = pendingFile
    BY <1>4 DEF BootOpen
  <2>2. bootHook' \in Boots /\ book' \in Books /\ ~Orderly(book')
    BY <1>1, <2>1, BeginIs
  <2> QED BY <1>1, <1>2, <2>1, <2>2, BootMoves
<1> QED BY <1>3, <1>4

(* A start notes all its parts before it fetches any.                       *)
LEMMA BootWriteOK == ASSUME DigestInv, NEW written \in BOOLEAN, BootWrite(written) PROVE DigestInv'
<1> DEFINE m == Marker(bootHook.before, 0, 0)
<1>1. /\ bootHook.pc = "write" /\ UNCHANGED retryHook
      /\ WriteMarker(Start, m, written) /\ BeginFetching(written)
  BY DEF BootWrite
<1>2. DigestTypes /\ bootHook \in Boots
  BY DEF DigestInv, DigestTypes
<1>3. m \in Theres /\ m.parts = bootHook.before /\ m.attempts = 0
  <2>1. bootHook.before \in SUBSET Parts /\ 0 \in Tries /\ 0 \in Ages \cup {Never}
    BY <1>2, Limits DEF Boots
  <2> QED BY <2>1, MarkerIs
<1> HIDE DEF m
<1>4. /\ pendingFile' \in Files /\ claimedFile' \in Files
      /\ claimedFile.open = {} => claimedFile' = claimedFile
      /\ written /\ pendingFile.open = {Start} /\ pendingFile.parts = {} =>
           /\ pendingFile'.open = {} /\ pendingFile'.parts = m.parts
           /\ pendingFile'.attempts = m.attempts
  <2>1. Start \in Writers
    BY DEF Writers
  <2> QED BY <1>1, <1>2, <1>3, <2>1, WrittenIs
<1>5. /\ bootHook' \in Boots /\ bootHook'.pc = "fetch core" /\ bootHook'.before = bootHook.before
      /\ book' \in Books
      /\ Orderly(book') => /\ Orderly(book) /\ written
                           /\ book'.owed = book.owed \cup bootHook.expected
                           /\ book'.shown = book.shown \ bootHook.expected
                           /\ book'.cut = book.cut \ bootHook.expected
                           /\ book'.kills = book.kills
  BY <1>1, BeginIs
<1>6. Orderly(book) => /\ NoRetry /\ BootKeeps(bootHook, pendingFile, claimedFile, book)
                       /\ book.kills = 0 => ~claimedFile.here
                       /\ pendingFile.open = {Start} /\ claimedFile.open = {}
  BY <1>1, OnlyBoot DEF InWrite, BootOpens
<1>7. Orderly(book) => /\ pendingFile.parts = {} /\ bootHook.expected \subseteq bootHook.before
                       /\ book.owed \subseteq book.cut \cup book.shown \cup claimedFile.parts \cup bootHook.before
  BY <1>1, <1>6 DEF BootKeeps, InWrite
<1>8. Orderly(book') => /\ claimedFile' = claimedFile /\ pendingFile'.open = {}
                        /\ pendingFile'.parts = bootHook.before /\ pendingFile'.attempts = 0
  BY <1>3, <1>4, <1>5, <1>6, <1>7
<1>9. Orderly(book') => BootKeeps(bootHook', pendingFile', claimedFile', book')
  BY <1>5, <1>8 DEF BootKeeps, InWrite
<1>10. Orderly(book') => Covered(pendingFile', claimedFile', book')
  BY <1>5, <1>7, <1>8 DEF Covered
<1>11. bootHook'.pc # "off" /\ BootOpens(bootHook') = {}
  BY <1>5 DEF InWrite, BootOpens
<1> QED BY <1>1, <1>4, <1>5, <1>6, <1>8, <1>9, <1>10, <1>11, BootMoves

(* A part is fetched, or is missing.                                        *)
LEMMA BootFetchOK == ASSUME DigestInv, NEW ok \in BOOLEAN, BootFetch(ok) PROVE DigestInv'
<1> DEFINE part == IF bootHook.pc = "fetch core" THEN "core" ELSE "session"
           miss == IF ok THEN bootHook.missing ELSE bootHook.missing \cup {part}
           pc == IF part = "core" /\ "session" \in bootHook.expected THEN "fetch session" ELSE "health"
<1>1. /\ bootHook.pc \in {"fetch core", "fetch session"}
      /\ bootHook' = [bootHook EXCEPT !.missing = miss, !.pc = pc]
      /\ UNCHANGED <<pendingFile, claimedFile, retryHook, book>>
  BY DEF BootFetch
<1>2. book \in Books /\ pendingFile \in Files /\ claimedFile \in Files /\ bootHook \in Boots
  BY DEF DigestInv, DigestTypes
<1>3. miss \in SUBSET Parts /\ pc \in {"fetch session", "health"}
  BY <1>2 DEF Boots, Parts
<1> HIDE DEF part, miss, pc
<1>4. bootHook' \in Boots /\ bootHook'.pc = pc /\ bootHook'.before = bootHook.before
  BY <1>1, <1>2, <1>3 DEF Boots, BootSteps
<1>5. Orderly(book) => /\ NoRetry /\ BootKeeps(bootHook, pendingFile, claimedFile, book)
                       /\ Covered(pendingFile, claimedFile, book) /\ (book.kills = 0 => ~claimedFile.here)
                       /\ pendingFile.open = {} /\ claimedFile.open = {}
  BY <1>1, OnlyBoot DEF InWrite, BootOpens
<1>6. Orderly(book) => BootKeeps(bootHook', pendingFile, claimedFile, book)
  BY <1>1, <1>3, <1>4, <1>5 DEF BootKeeps, InWrite
<1>7. bootHook'.pc # "off" /\ BootOpens(bootHook') = {}
  BY <1>3, <1>4 DEF InWrite, BootOpens
<1> QED BY <1>1, <1>2, <1>4, <1>5, <1>6, <1>7, BootMoves

(* What was fetched is printed.                                             *)
LEMMA BootEmitOK == ASSUME DigestInv, BootEmit PROVE DigestInv'
<1> DEFINE found == bootHook.expected \ bootHook.missing
           shows == book.shown \cup found
           b == [book EXCEPT !.shown = shows]
<1>1. /\ bootHook.pc = "health" /\ BootGoes("reconcile") /\ Note(b)
      /\ UNCHANGED <<pendingFile, claimedFile, retryHook>>
  BY DEF BootEmit, BootGoes
<1>2. book \in Books /\ pendingFile \in Files /\ claimedFile \in Files /\ bootHook \in Boots
  BY DEF DigestInv, DigestTypes
<1>3. /\ bootHook' \in Boots /\ bootHook'.pc = "reconcile" /\ bootHook'.before = bootHook.before
      /\ bootHook'.expected \ bootHook'.missing = found
  BY <1>1, BootGoesIs DEF BootSteps
<1>4. shows \in SUBSET Parts
  BY <1>2 DEF Boots, Books
<1>5. found \subseteq shows /\ book.shown \subseteq shows
  OBVIOUS
<1> HIDE DEF found, shows
<1>6. /\ b \in Books /\ b.kills = book.kills /\ b.owed = book.owed
      /\ b.amiss = book.amiss /\ b.shown = shows /\ b.cut = book.cut
  BY <1>2, <1>4 DEF Books
<1> HIDE DEF b
<1>7. book' \in Books /\ (Orderly(book') => book' = b /\ Orderly(book))
  BY <1>1, <1>6, NoteIs DEF Orderly
<1>8. Orderly(book) => /\ NoRetry /\ BootKeeps(bootHook, pendingFile, claimedFile, book)
                       /\ Covered(pendingFile, claimedFile, book) /\ (book.kills = 0 => ~claimedFile.here)
                       /\ pendingFile.open = {} /\ claimedFile.open = {}
  BY <1>1, OnlyBoot DEF InWrite, BootOpens
<1>9. Orderly(book) => BootKeeps(bootHook', pendingFile, claimedFile, b)
  BY <1>1, <1>3, <1>5, <1>6, <1>8 DEF BootKeeps, InWrite
<1>10. Orderly(book) => Covered(pendingFile, claimedFile, b)
  BY <1>5, <1>6, <1>8 DEF Covered
<1>11. bootHook'.pc # "off" /\ BootOpens(bootHook') = {}
  BY <1>3 DEF InWrite, BootOpens
<1> QED BY <1>1, <1>2, <1>3, <1>6, <1>7, <1>8, <1>9, <1>10, <1>11, BootMoves

(* What is missing, in the marker or in a claim left behind is in the hands *)
(* of the start, or has been printed.                                       *)
LEMMA BootReconcileOK == ASSUME DigestInv, BootReconcile PROVE DigestInv'
<1> DEFINE found == bootHook.expected \ bootHook.missing
           left == AllPending \ found
           pc == IF left = {} THEN "clear" ELSE "reopen"
<1>1. /\ bootHook.pc = "reconcile" /\ bootHook' = [bootHook EXCEPT !.pc = pc, !.before = left]
      /\ pendingFile' = IF left = {} THEN NoFile ELSE pendingFile
      /\ UNCHANGED <<claimedFile, retryHook, book>>
  BY DEF BootReconcile
<1>2. book \in Books /\ pendingFile \in Files /\ claimedFile \in Files /\ bootHook \in Boots
  BY DEF DigestInv, DigestTypes
<1>3. pendingFile.parts \in SUBSET Parts /\ claimedFile.parts \in SUBSET Parts
  BY <1>2, FileIs
<1>4. /\ left \in SUBSET Parts
      /\ pendingFile.parts \subseteq left \cup found /\ claimedFile.parts \subseteq left \cup found
  BY <1>2, <1>3 DEF AllPending, Boots
<1>5. pc \in {"clear", "reopen"} /\ (left = {} <=> pc = "clear")
  OBVIOUS
<1> HIDE DEF left, pc
<1>6. /\ bootHook' \in Boots /\ bootHook'.pc = pc /\ bootHook'.before = left
  BY <1>1, <1>2, <1>4, <1>5 DEF Boots, BootSteps
<1>7. Orderly(book) => /\ NoRetry /\ BootKeeps(bootHook, pendingFile, claimedFile, book)
                       /\ Covered(pendingFile, claimedFile, book) /\ (book.kills = 0 => ~claimedFile.here)
                       /\ pendingFile.open = {} /\ claimedFile.open = {}
  BY <1>1, OnlyBoot DEF InWrite, BootOpens
<1>8. Orderly(book) => found \subseteq book.shown /\ pendingFile.attempts = 0
  BY <1>1, <1>7 DEF BootKeeps
<1> HIDE DEF found
<1>9. /\ pendingFile' \in Files /\ (Orderly(book) => pendingFile'.open = {})
      /\ Orderly(book) => pendingFile'.attempts = 0
      /\ pendingFile'.parts \subseteq pendingFile.parts
      /\ pc = "reopen" => pendingFile' = pendingFile
  BY <1>1, <1>2, <1>5, <1>7, <1>8, NoFileIs
<1>10. Orderly(book) => BootKeeps(bootHook', pendingFile', claimedFile, book)
  BY <1>4, <1>5, <1>6, <1>8, <1>9 DEF BootKeeps, InWrite
<1>11. Orderly(book) => Covered(pendingFile', claimedFile, book)
  <2>1. CASE pc = "reopen"
    BY <1>7, <1>9, <2>1
  <2>2. CASE pc = "clear"
    BY <1>4, <1>5, <1>7, <1>8, <2>2 DEF Covered
  <2> QED BY <1>5, <2>1, <2>2
<1>12. bootHook'.pc # "off" /\ BootOpens(bootHook') = {}
  BY <1>5, <1>6 DEF InWrite, BootOpens
<1> QED BY <1>1, <1>2, <1>6, <1>7, <1>9, <1>10, <1>11, <1>12, BootMoves

(* The marker is emptied again, or cannot be opened.                        *)
LEMMA BootReopenOK == ASSUME DigestInv, NEW opened \in BOOLEAN, BootReopen(opened) PROVE DigestInv'
<1>1. bootHook.pc = "reopen" /\ UNCHANGED <<claimedFile, retryHook>>
  BY DEF BootReopen
<1>2. DigestTypes /\ book \in Books /\ pendingFile \in Files /\ claimedFile \in Files
  BY DEF DigestInv, DigestTypes
<1>3. CASE opened
  <2>1. OpenMarker(Start) /\ BootGoes("rewrite") /\ book' = book
    BY <1>3 DEF BootReopen
  <2>2. /\ pendingFile' \in Files /\ pendingFile'.parts = {} /\ pendingFile'.attempts = 0
        /\ pendingFile.open = {} => pendingFile'.open = {Start}
    <3>1. Start \in Writers
      BY DEF Writers
    <3> QED BY <1>2, <2>1, <3>1, OpenIs
  <2>3. bootHook' \in Boots /\ bootHook'.pc = "rewrite" /\ bootHook'.before = bootHook.before
    BY <2>1, BootGoesIs DEF BootSteps, InWrite
  <2>4. Orderly(book) => /\ NoRetry /\ BootKeeps(bootHook, pendingFile, claimedFile, book)
                         /\ Covered(pendingFile, claimedFile, book) /\ (book.kills = 0 => ~claimedFile.here)
                         /\ pendingFile.open = {} /\ claimedFile.open = {}
    BY <1>1, OnlyBoot DEF InWrite, BootOpens
  <2>5. Orderly(book) => BootKeeps(bootHook', pendingFile', claimedFile, book)
    <3>1. Orderly(book) => /\ pendingFile.parts \subseteq bootHook.before \cup book.shown
                           /\ claimedFile.parts \subseteq bootHook.before \cup book.shown
      BY <1>1, <2>4 DEF BootKeeps
    <3>2. Orderly(book) => book.owed \subseteq book.cut \cup book.shown \cup claimedFile.parts \cup bootHook.before
      BY <2>4, <3>1 DEF Covered
    <3> QED BY <2>2, <2>3, <3>1, <3>2 DEF BootKeeps, InWrite
  <2>6. bootHook'.pc # "off" /\ bootHook'.pc \in InWrite /\ BootOpens(bootHook') = {Start}
    BY <2>3 DEF InWrite, BootOpens
  <2> QED BY <1>1, <1>2, <2>1, <2>2, <2>3, <2>4, <2>5, <2>6, BootMoves
<1>4. CASE ~opened
  <2> DEFINE b == [book EXCEPT !.amiss = TRUE]
  <2>1. Note(b) /\ BootGoes("clear") /\ pendingFile' = pendingFile
    BY <1>4 DEF BootReopen
  <2>2. b \in Books /\ ~Orderly(b)
    BY <1>2 DEF Books, Orderly
  <2> HIDE DEF b
  <2>3. bootHook' \in Boots /\ book' \in Books /\ ~Orderly(book')
    BY <2>1, <2>2, NoteIs, BootGoesIs DEF BootSteps
  <2> QED BY <1>1, <1>2, <2>1, <2>3, BootMoves
<1> QED BY <1>3, <1>4

(* What is left goes into the marker.                                       *)
LEMMA BootRewriteOK == ASSUME DigestInv, NEW written \in BOOLEAN, BootRewrite(written) PROVE DigestInv'
<1> DEFINE m == Marker(bootHook.before, 0, Never)
           miss == book.amiss \/ ~written
           b == [book EXCEPT !.amiss = miss]
<1>1. /\ bootHook.pc = "rewrite" /\ UNCHANGED retryHook
      /\ WriteMarker(Start, m, written) /\ BootGoes("clear") /\ Note(b)
  BY DEF BootRewrite
<1>2. DigestTypes /\ bootHook \in Boots /\ book \in Books
  BY DEF DigestInv, DigestTypes
<1>3. m \in Theres /\ m.parts = bootHook.before /\ m.attempts = 0
  <2>1. bootHook.before \in SUBSET Parts /\ 0 \in Tries /\ Never \in Ages \cup {Never}
    BY <1>2, Limits DEF Boots
  <2> QED BY <2>1, MarkerIs
<1> HIDE DEF m
<1>4. /\ pendingFile' \in Files /\ claimedFile' \in Files
      /\ claimedFile.open = {} => claimedFile' = claimedFile
      /\ written /\ pendingFile.open = {Start} /\ pendingFile.parts = {} =>
           /\ pendingFile'.open = {} /\ pendingFile'.parts = m.parts
           /\ pendingFile'.attempts = m.attempts
  <2>1. Start \in Writers
    BY DEF Writers
  <2> QED BY <1>1, <1>2, <1>3, <2>1, WrittenIs
<1>5. bootHook' \in Boots /\ bootHook'.pc = "clear" /\ bootHook'.before = bootHook.before
  BY <1>1, BootGoesIs DEF BootSteps
<1>6. miss \in BOOLEAN /\ (~miss => ~book.amiss /\ written)
  BY <1>2 DEF Books
<1> HIDE DEF miss
<1>7. /\ b \in Books /\ b.kills = book.kills /\ b.owed = book.owed /\ b.amiss = miss
      /\ b.shown = book.shown /\ b.cut = book.cut
  BY <1>2, <1>6 DEF Books
<1> HIDE DEF b
<1>8. book' \in Books /\ (Orderly(book') => book' = b /\ Orderly(book) /\ written)
  BY <1>1, <1>6, <1>7, NoteIs DEF Orderly
<1>9. Orderly(book) => /\ NoRetry /\ BootKeeps(bootHook, pendingFile, claimedFile, book)
                       /\ book.kills = 0 => ~claimedFile.here
                       /\ pendingFile.open = {Start} /\ claimedFile.open = {}
  BY <1>1, OnlyBoot DEF InWrite, BootOpens
<1>10. Orderly(book) => /\ pendingFile.parts = {} /\ claimedFile.parts \subseteq bootHook.before \cup book.shown
                        /\ book.owed \subseteq book.cut \cup book.shown \cup claimedFile.parts \cup bootHook.before
  BY <1>1, <1>9 DEF BootKeeps, InWrite
<1>11. Orderly(book') => /\ claimedFile' = claimedFile /\ pendingFile'.open = {}
                         /\ pendingFile'.parts = bootHook.before /\ pendingFile'.attempts = 0
  BY <1>3, <1>4, <1>8, <1>9, <1>10
<1>12. Orderly(book') => BootKeeps(bootHook', pendingFile', claimedFile', b)
  BY <1>5, <1>7, <1>8, <1>10, <1>11 DEF BootKeeps, InWrite
<1>13. Orderly(book') => Covered(pendingFile', claimedFile', b)
  BY <1>7, <1>8, <1>10, <1>11 DEF Covered
<1>14. bootHook'.pc # "off" /\ BootOpens(bootHook') = {}
  BY <1>5 DEF InWrite, BootOpens
<1> QED BY <1>1, <1>4, <1>5, <1>7, <1>8, <1>9, <1>11, <1>12, <1>13, <1>14, BootMoves

(* The claim left behind is cleared.                                        *)
LEMMA BootClearOK == ASSUME DigestInv, BootClear PROVE DigestInv'
<1>1. /\ bootHook.pc = "clear" /\ claimedFile' = NoFile /\ bootHook' = BootOff
      /\ UNCHANGED <<pendingFile, retryHook, book>>
  BY DEF BootClear
<1>2. book \in Books /\ pendingFile \in Files
  BY DEF DigestInv, DigestTypes
<1>3. book.failed \in Nat
  BY <1>2, Limits DEF Books
<1>4. Orderly(book) => /\ NoRetry /\ BootKeeps(bootHook, pendingFile, claimedFile, book)
                       /\ Covered(pendingFile, claimedFile, book) /\ pendingFile.open = {}
  BY <1>1, OnlyBoot DEF InWrite, BootOpens
<1>5. Orderly(book) => AtRest(pendingFile, NoFile, book)
  BY <1>1, <1>3, <1>4, NoFileIs DEF AtRest, BootKeeps
<1>6. Orderly(book) => Covered(pendingFile, NoFile, book)
  BY <1>1, <1>4 DEF Covered, BootKeeps
<1>7. BootOpens(BootOff) = {}
  BY OffIs DEF BootOpens, InWrite
<1> QED BY <1>1, <1>2, <1>4, <1>5, <1>6, <1>7, NoFileIs, OffIs, BootMoves

-----------------------------------------------------------------------------
(* The harness and the clock                                                *)

(* A start is killed: what it was writing is cut.                           *)
LEMMA KillStartOK == ASSUME DigestInv, KillStart PROVE DigestInv'
<1> DEFINE k == book.kills + 1
           cuts == IF bootHook.pc \in InWrite THEN book.cut \cup bootHook.before ELSE book.cut
           b == [book EXCEPT !.kills = k, !.cut = cuts]
<1>1. /\ bootHook.pc # "off" /\ bootHook' = BootOff /\ UNCHANGED retryHook /\ Note(b)
      /\ pendingFile' = LetGo(pendingFile, Start) /\ claimedFile' = LetGo(claimedFile, Start)
  BY DEF KillStart, InWrite
<1>2. book \in Books /\ pendingFile \in Files /\ claimedFile \in Files /\ bootHook \in Boots
  BY DEF DigestInv, DigestTypes
<1>3. /\ k \in Nat /\ k # 0 /\ (k <= 1 => book.kills = 0) /\ book.failed \in Nat
      /\ cuts \in SUBSET Parts /\ book.cut \subseteq cuts
      /\ bootHook.pc \in InWrite => bootHook.before \subseteq cuts
  BY <1>2, Limits DEF Books, Boots
<1> HIDE DEF k, cuts
<1>4. /\ b \in Books /\ b.kills = k /\ b.cut = cuts /\ b.owed = book.owed /\ b.amiss = book.amiss
      /\ b.shown = book.shown /\ b.failed = book.failed
  BY <1>2, <1>3 DEF Books
<1> HIDE DEF b
<1>5. book' \in Books /\ (Orderly(book') => book' = b /\ Orderly(book) /\ book.kills = 0)
  <2>1. Orderly(b) => Orderly(book) /\ book.kills = 0
    BY <1>3, <1>4 DEF Orderly
  <2> QED BY <1>1, <1>4, <2>1, NoteIs
<1>6. /\ pendingFile' \in Files /\ claimedFile' \in Files
      /\ pendingFile'.parts = pendingFile.parts /\ claimedFile'.parts = claimedFile.parts
      /\ pendingFile'.attempts = pendingFile.attempts /\ claimedFile'.attempts = claimedFile.attempts
      /\ pendingFile'.open = pendingFile.open \ {Start} /\ claimedFile'.open = claimedFile.open \ {Start}
  BY <1>1, <1>2, LetGoIs
<1>7. ASSUME Orderly(book')
      PROVE  /\ NoRetry /\ AtRest(pendingFile', claimedFile', b) /\ Covered(pendingFile', claimedFile', b)
             /\ pendingFile'.open = {} /\ claimedFile'.open = {}
  <2>1. /\ NoRetry /\ BootKeeps(bootHook, pendingFile, claimedFile, book) /\ ~claimedFile.here
        /\ pendingFile.open = BootOpens(bootHook) /\ claimedFile.open = {}
        /\ bootHook.pc \notin InWrite => Covered(pendingFile, claimedFile, book)
    BY <1>1, <1>5, <1>7, OnlyBoot
  <2>2. claimedFile.parts = {} /\ claimedFile.attempts = 0
    BY <1>2, <2>1, FileIs, NoFileIs
  <2>3. pendingFile.attempts <= book.failed
    <3>1. CASE bootHook.pc = "open"
      BY <2>1, <3>1 DEF BootKeeps, AtRest
    <3>2. CASE bootHook.pc # "open"
      <4>1. pendingFile.attempts = 0
        BY <2>1, <3>2 DEF BootKeeps
      <4> QED BY <1>3, <4>1
    <3> QED BY <3>1, <3>2
  <2>4. AtRest(pendingFile', claimedFile', b)
    BY <1>3, <1>4, <1>6, <2>2, <2>3 DEF AtRest
  <2>5. Covered(pendingFile', claimedFile', b)
    <3>1. CASE bootHook.pc \in InWrite
      <4>1. book.owed \subseteq book.cut \cup book.shown \cup claimedFile.parts \cup bootHook.before
        BY <2>1, <3>1 DEF BootKeeps
      <4> QED BY <1>3, <1>4, <1>6, <3>1, <4>1 DEF Covered
    <3>2. CASE bootHook.pc \notin InWrite
      BY <1>3, <1>4, <1>6, <2>1, <3>2 DEF Covered
    <3> QED BY <3>1, <3>2
  <2>6. pendingFile'.open = {} /\ claimedFile'.open = {}
    BY <1>6, <2>1 DEF BootOpens
  <2> QED BY <2>1, <2>4, <2>5, <2>6
<1>8. b.kills # 0 /\ bootHook' \in Boots /\ bootHook'.pc = "off" /\ BootOpens(bootHook') = {}
  BY <1>1, <1>3, <1>4, OffIs DEF BootOpens, InWrite
<1> QED BY <1>1, <1>5, <1>6, <1>7, <1>8, BootMoves

(* A prompt hook is killed: the claim has what it was writing.              *)
LEMMA KillRetryOK == ASSUME DigestInv, NEW r \in Prompts, KillRetry(r) PROVE DigestInv'
<1> DEFINE k == book.kills + 1
           b == [book EXCEPT !.kills = k]
<1>1. /\ retryHook[r].pc # "off" /\ retryHook' = [retryHook EXCEPT ![r] = RetryOff] /\ UNCHANGED bootHook
      /\ pendingFile' = LetGo(pendingFile, r) /\ claimedFile' = LetGo(claimedFile, r) /\ Note(b)
  BY DEF KillRetry, RetriesBusy
<1>2. book \in Books /\ pendingFile \in Files /\ claimedFile \in Files
  BY DEF DigestInv, DigestTypes
<1>3. k \in Nat /\ k # 0 /\ (k <= 1 => book.kills = 0)
  BY <1>2 DEF Books
<1> HIDE DEF k
<1>4. /\ b \in Books /\ b.kills = k /\ b.cut = book.cut /\ b.owed = book.owed /\ b.amiss = book.amiss
      /\ b.shown = book.shown /\ b.failed = book.failed
  BY <1>2, <1>3 DEF Books
<1> HIDE DEF b
<1>5. book' \in Books /\ (Orderly(book') => book' = b /\ Orderly(book))
  <2>1. Orderly(b) => Orderly(book)
    BY <1>3, <1>4 DEF Orderly
  <2> QED BY <1>1, <1>4, <2>1, NoteIs
<1>6. /\ pendingFile' \in Files /\ claimedFile' \in Files
      /\ pendingFile'.parts = pendingFile.parts /\ claimedFile'.parts = claimedFile.parts
      /\ pendingFile'.attempts = pendingFile.attempts /\ claimedFile'.attempts = claimedFile.attempts
      /\ pendingFile'.open = pendingFile.open \ {r} /\ claimedFile'.open = claimedFile.open \ {r}
  BY <1>1, <1>2, LetGoIs
<1>7. ASSUME Orderly(book')
      PROVE  /\ Alone(r) /\ AtRest(pendingFile', claimedFile', b) /\ Covered(pendingFile', claimedFile', b)
             /\ pendingFile'.open = {} /\ claimedFile'.open = {}
  <2>1. /\ Alone(r) /\ AtRest(pendingFile, claimedFile, book) /\ Covered(pendingFile, claimedFile, book)
        /\ pendingFile.open = RetryOpens(retryHook[r], r) /\ claimedFile.open = {}
    BY <1>1, <1>5, <1>7, OnlyRetry
  <2>2. AtRest(pendingFile', claimedFile', b) /\ Covered(pendingFile', claimedFile', b)
    BY <1>4, <1>6, <2>1 DEF AtRest, Covered, Readable
  <2>3. pendingFile'.open = {} /\ claimedFile'.open = {}
    BY <1>6, <2>1 DEF RetryOpens
  <2> QED BY <2>1, <2>2, <2>3
<1>8. /\ RetryOff \in Retries /\ RetryKeeps(RetryOff, pendingFile', claimedFile', book')
      /\ TriesLeft(RetryOff) /\ RetryOpens(RetryOff, r) = {} /\ b.kills # 0
  BY <1>3, <1>4, OffIs, OffKeeps DEF RetryOpens
<1> QED BY <1>1, <1>5, <1>6, <1>7, <1>8, RetryMoves

(* What a file is after a tick.                                             *)
Aged(f) ==
  IF f.here THEN [f EXCEPT !.mtime = Older(@, ClaimStale),
                           !.since = IF @ = Never THEN Never ELSE Older(@, RunningGrace)]
  ELSE NoFile

(* A file grows older.                                                      *)
LEMMA AgedFile ==
  ASSUME NEW f \in Files
  PROVE  /\ Aged(f) \in Files /\ Aged(f).here = f.here
         /\ Aged(f).parts = f.parts /\ Aged(f).attempts = f.attempts /\ Aged(f).open = f.open
<1>1. CASE f.here
  <2> DEFINE m == Older(f.mtime, ClaimStale)
             s == IF f.since = Never THEN Never ELSE Older(f.since, RunningGrace)
  <2>1. f \in Theres
    BY <1>1, FileIs
  <2>2. m \in Ages
    BY <2>1, Limits DEF Older, Ages, Theres
  <2>3. s \in Ages \cup {Never}
    <3>1. CASE f.since = Never
      BY <3>1
    <3>2. CASE f.since # Never
      <4>1. f.since \in Ages /\ s = Older(f.since, RunningGrace)
        BY <2>1, <3>2 DEF Theres
      <4> QED BY <4>1, Limits DEF Older, Ages
    <3> QED BY <3>1, <3>2
  <2>4. Aged(f) = [f EXCEPT !.mtime = m, !.since = s]
    BY <1>1 DEF Aged
  <2> HIDE DEF m, s
  <2> QED BY <2>1, <2>2, <2>3, <2>4 DEF Files, Theres
<1>2. CASE ~f.here
  <2>1. Aged(f) = NoFile /\ f = NoFile
    BY <1>2, FileIs DEF Aged
  <2> QED BY <2>1, NoFileIs
<1> QED BY <1>1, <1>2, FileIs

(* Time passes: only ages change.                                           *)
LEMMA TickOK == ASSUME DigestInv, DigestTick PROVE DigestInv'
<1>1. /\ bootHook' = IF bootHook.pc = "off" THEN bootHook
                     ELSE [bootHook EXCEPT !.age = Older(@, StartBudget)]
      /\ retryHook' = [r \in Prompts |-> IF retryHook[r].pc = "off" THEN retryHook[r]
                         ELSE [retryHook[r] EXCEPT !.age = Older(@, RetryBudget)]]
      /\ book' = book
  BY DEF DigestTick
<1>2. /\ book \in Books /\ pendingFile \in Files /\ claimedFile \in Files /\ bootHook \in Boots
      /\ retryHook \in [Prompts -> Retries] /\ \A r \in Prompts : TriesLeft(retryHook[r])
  BY DEF DigestInv, DigestTypes
<1>3. /\ pendingFile' \in Files /\ pendingFile'.here = pendingFile.here /\ pendingFile'.open = pendingFile.open
      /\ pendingFile'.parts = pendingFile.parts /\ pendingFile'.attempts = pendingFile.attempts
  <2>1. pendingFile' = Aged(pendingFile)
    BY DEF DigestTick, Aged
  <2> QED BY <1>2, <2>1, AgedFile
<1>4. /\ claimedFile' \in Files /\ claimedFile'.here = claimedFile.here /\ claimedFile'.open = claimedFile.open
      /\ claimedFile'.parts = claimedFile.parts /\ claimedFile'.attempts = claimedFile.attempts
  <2>1. claimedFile' = Aged(claimedFile)
    BY DEF DigestTick, Aged
  <2> QED BY <1>2, <2>1, AgedFile
<1>5. /\ bootHook' \in Boots /\ bootHook'.pc = bootHook.pc /\ bootHook'.before = bootHook.before
      /\ bootHook'.expected = bootHook.expected /\ bootHook'.missing = bootHook.missing
  <2> DEFINE a == Older(bootHook.age, StartBudget)
  <2>1. a \in 0..StartBudget
    BY <1>2, Limits DEF Boots, Older
  <2>2. bootHook' = bootHook \/ bootHook' = [bootHook EXCEPT !.age = a]
    BY <1>1
  <2> HIDE DEF a
  <2> QED BY <1>2, <2>1, <2>2 DEF Boots
<1>6. ASSUME NEW r \in Prompts
      PROVE  /\ retryHook'[r] \in Retries /\ retryHook'[r].pc = retryHook[r].pc
             /\ retryHook'[r].parts = retryHook[r].parts /\ retryHook'[r].attempts = retryHook[r].attempts
             /\ retryHook'[r].got = retryHook[r].got
  <2> DEFINE a == Older(retryHook[r].age, RetryBudget)
  <2>1. a \in 0..RetryBudget /\ retryHook[r] \in Retries
    BY <1>2, Limits DEF Retries, Older
  <2>2. retryHook'[r] = retryHook[r] \/ retryHook'[r] = [retryHook[r] EXCEPT !.age = a]
    BY <1>1
  <2> HIDE DEF a
  <2> QED BY <2>1, <2>2 DEF Retries
<1>7. DigestTypes'
  <2>1. retryHook' \in [Prompts -> Retries]
    BY <1>1, <1>6
  <2>2. \A r \in Prompts : TriesLeft(retryHook'[r])
    BY <1>2, <1>6 DEF TriesLeft
  <2> QED BY <1>1, <1>2, <1>3, <1>4, <1>5, <2>1, <2>2 DEF DigestTypes
<1>8. Orderly(book) => DigestKept'
  <2> SUFFICES ASSUME Orderly(book) PROVE DigestKept'
    OBVIOUS
  <2>1. (NoRetry' <=> NoRetry) /\ Opened' = Opened
    BY <1>5, <1>6 DEF NoRetry, Opened, BootOpens
  <2>2. bootHook.pc # "off" => BootKeeps(bootHook', pendingFile', claimedFile', book')
    <3> SUFFICES ASSUME bootHook.pc # "off" PROVE BootKeeps(bootHook', pendingFile', claimedFile', book')
      OBVIOUS
    <3>1. BootKeeps(bootHook, pendingFile, claimedFile, book)
      BY WhenOrderly
    <3>2. AtRest(pendingFile, claimedFile, book) => AtRest(pendingFile', claimedFile', book')
      BY <1>1, <1>3, <1>4 DEF AtRest, Readable
    <3> QED BY <1>1, <1>3, <1>4, <1>5, <3>1, <3>2 DEF BootKeeps, InWrite
  <2>3. bootHook.pc = "off" => AtRest(pendingFile', claimedFile', book')
    BY <1>1, <1>3, <1>4, WhenOrderly DEF AtRest, Readable
  <2>4. ASSUME NEW r \in Prompts PROVE RetryKeeps(retryHook'[r], pendingFile', claimedFile', book')
    <3>1. RetryKeeps(retryHook[r], pendingFile, claimedFile, book)
      BY WhenOrderly
    <3> QED BY <1>1, <1>3, <1>4, <1>6, <3>1 DEF RetryKeeps, Readable
  <2>5. bootHook'.pc \notin InWrite => Covered(pendingFile', claimedFile', book')
    BY <1>1, <1>3, <1>4, <1>5, WhenOrderly DEF Covered
  <2>6. \A r, s \in Prompts : r # s => retryHook'[r].pc = "off" \/ retryHook'[s].pc = "off"
    BY <1>6, WhenOrderly
  <2>7. book'.kills = 0 /\ NoRetry' => ~claimedFile'.here
    BY <1>1, <1>4, <2>1, WhenOrderly
  <2>8. bootHook'.pc = "off" \/ NoRetry'
    BY <1>5, <2>1, WhenOrderly
  <2>9. pendingFile'.open = Opened' /\ claimedFile'.open = {}
    BY <1>3, <1>4, <2>1, WhenOrderly
  <2> QED BY <1>5, <2>2, <2>3, <2>4, <2>5, <2>6, <2>7, <2>8, <2>9 DEF DigestKept
<1>9. ~Orderly(book) => DigestKept'
  BY <1>1 DEF DigestKept
<1> QED BY <1>7, <1>8, <1>9 DEF DigestInv

-----------------------------------------------------------------------------
(* The delivery of a digest                                                 *)

(* No file, no hook, nothing owed.                                          *)
LEMMA DigestStart == DigestInit => DigestInv
<1> SUFFICES ASSUME DigestInit PROVE DigestInv
  OBVIOUS
<1>1. /\ pendingFile = NoFile /\ claimedFile = NoFile /\ bootHook = BootOff
      /\ retryHook = [r \in Prompts |-> RetryOff]
      /\ book = [owed |-> {}, shown |-> {}, cut |-> {}, failed |-> 0, starts |-> 0, kills |-> 0, amiss |-> FALSE]
  BY DEF DigestInit
<1>2. /\ book \in Books /\ book.owed = {} /\ book.failed = 0 /\ book.kills = 0
  BY <1>1, Limits DEF Books
<1>3. DigestTypes
  BY <1>1, <1>2, NoFileIs, OffIs DEF DigestTypes
<1>4. AtRest(pendingFile, claimedFile, book) /\ Covered(pendingFile, claimedFile, book)
  BY <1>1, <1>2, NoFileIs DEF AtRest, Covered, Readable
<1>5. \A r \in Prompts : retryHook[r].pc = "off" /\ RetryKeeps(retryHook[r], pendingFile, claimedFile, book)
  BY <1>1, OffIs, OffKeeps
<1>6. pendingFile.open = Opened /\ claimedFile.open = {}
  BY <1>1, <1>5, NoFileIs, OffIs DEF Opened, BootOpens, InWrite
<1>7. DigestKept
  BY <1>1, <1>4, <1>5, <1>6, OffIs, NoFileIs DEF DigestKept, NoRetry
<1> QED BY <1>3, <1>7 DEF DigestInv

(* Every step of the hooks, the harness and the clock keeps the invariant.  *)
LEMMA DigestStep == DigestInv /\ [DigestNext]_digestVars => DigestInv'
<1> SUFFICES ASSUME DigestInv, [DigestNext]_digestVars PROVE DigestInv'
  OBVIOUS
<1>1. CASE \E compact \in BOOLEAN : BootSetup(compact)
  BY <1>1, BootSetupOK
<1>2. CASE BootStep
  BY <1>2, BootFetchOK, BootEmitOK, BootReconcileOK, BootClearOK, BootOpenOK, BootWriteOK,
     BootReopenOK, BootRewriteOK DEF BootStep
<1>3. ASSUME NEW r \in Prompts, RetryStep(r) \/ ResolveCli(r, FALSE) PROVE DigestInv'
  BY <1>3, LookOK, StatClaimOK, RecoverOK, ClaimOK, TouchOK, ReadOK, ResolveOK, RetryFetchOK,
     RetryEmitOK, FinishOpenOK, FinishWriteOK, FinishUnlinkOK DEF RetryStep
<1>4. CASE KillStart \/ \E r \in Prompts : KillRetry(r)
  BY <1>4, KillStartOK, KillRetryOK
<1>5. CASE DigestTick
  BY <1>5, TickOK
<1>6. CASE UNCHANGED digestVars
  <2>1. /\ pendingFile' = pendingFile /\ claimedFile' = claimedFile /\ bootHook' = bootHook
        /\ retryHook' = retryHook /\ book' = book
    BY <1>6 DEF digestVars
  <2> QED BY <2>1 DEF DigestInv, DigestTypes, DigestKept, NoRetry, Opened
<1> QED BY <1>1, <1>2, <1>3, <1>4, <1>5, <1>6 DEF DigestNext

(* What the invariant says of the promise.                                  *)
LEMMA DigestHolds == DigestInv => PartsKept
<1> SUFFICES ASSUME DigestInv PROVE PartsKept
  OBVIOUS
<1>1. /\ book \in Books /\ pendingFile \in Files /\ claimedFile \in Files /\ bootHook \in Boots
      /\ retryHook \in [Prompts -> Retries]
  BY DEF DigestInv, DigestTypes
<1>2. \A f \in Files : FileOK(f)
  BY FileIs DEF FileOK, Tries
<1>3. bootHook.age \in 0..StartBudget /\ \A r \in Prompts : retryHook[r].age \in 0..RetryBudget
  BY <1>1 DEF Boots, Retries
<1>4. DigestTypeOK
  BY <1>1, <1>2, <1>3 DEF DigestTypeOK
<1>5. ASSUME Orderly(book) PROVE book.owed \subseteq book.cut \cup book.shown \cup InHand
  <2>1. CASE bootHook.pc \in InWrite
    <3>1. book.owed \subseteq book.cut \cup book.shown \cup claimedFile.parts \cup bootHook.before
      BY <1>5, <2>1, OnlyBoot DEF BootKeeps, InWrite
    <3> QED BY <2>1, <3>1 DEF InHand, InWrite
  <2>2. CASE bootHook.pc \notin InWrite
    BY <1>5, <2>2, WhenOrderly DEF Covered, InHand
  <2> QED BY <2>1, <2>2
<1> QED BY <1>4, <1>5 DEF PartsKept, NoPartForgotten

(* However many prompt hooks there are, however often a session starts, and *)
(* whichever hook is killed between any two of its system calls: as long as *)
(* no two hooks overlapped, one was killed at most and each write of a      *)
(* marker succeeded, each part of the digest a start promised is printed,   *)
(* in a marker file, in the hands of a hook, was tried MAX_RETRY_ATTEMPTS   *)
(* times, or was what a start had just emptied the marker to write when it  *)
(* was killed; and no marker is written with its tries used up.             *)
THEOREM PartsStayKept == DigestSpec => []PartsKept
<1>1. DigestInv /\ [DigestNext]_digestVars => DigestInv'
  BY DigestStep
<1> QED BY <1>1, DigestStart, DigestHolds, PTL DEF DigestSpec

-----------------------------------------------------------------------------
(* The stop gates                                                           *)

Lines == {"user", "risky", "search", "store", "answer", "ask1", "ask2"}
At(t, kind) == {i \in DOMAIN t : t[i] = kind}
Critiques == [count : 0..2, stage2 : 0..1, fires : Nat, cap : Nat, asks : Nat]
TurnStates == [open : BOOLEAN, n : Nat, blocked : BOOLEAN, lists : Nat, silent : BOOLEAN]
Flags == [outcome : 0..2, searched : BOOLEAN]
Lists == [prompts : Nat, pending : BOOLEAN, shown : SUBSET MemoryIds, seen : SUBSET MemoryIds, again : BOOLEAN]
Harnesses == [readable : BOOLEAN, active : BOOLEAN]

(* Some answer stands after every Stage 2 prompt: only then may the gate    *)
(* write another one.                                                       *)
Unasked(t) == \E a \in At(t, "answer") : \A i \in At(t, "ask2") : i < a

AsksOK(t) ==
  /\ t \in Seq(Lines)
  /\ Cardinality(At(t, "ask2")) <= Cardinality(At(t, "answer"))
  /\ Unasked(t) => Cardinality(At(t, "ask2")) < Cardinality(At(t, "answer"))

(* Between the two questions of an episode one is still to come.            *)
CritiqueOK(c) ==
  /\ c \in Critiques
  /\ c.cap = 0 => c.fires = 0
  /\ c.cap > 0 => c.fires <= c.cap
  /\ c.asks <= 2 * c.fires
  /\ c.count = 1 => c.asks + 1 <= 2 * c.fires

RelatedOK(r) == r \in Lists /\ r.seen \subseteq r.shown /\ ~r.again /\ r.prompts <= MaxPrompts

(* A turn that was listed to once goes on only as a blocked one, and only   *)
(* an open turn has a search nobody was told to report.                     *)
TurnOK(n, f, h) ==
  /\ n \in TurnStates /\ f \in Flags /\ h \in Harnesses
  /\ h.active => n.lists <= 1 /\ (n.open /\ n.lists = 1 => n.blocked)
  /\ n.silent => n.open /\ f.outcome = 1

GateInv == AsksOK(transcript) /\ CritiqueOK(critique) /\ RelatedOK(related) /\ TurnOK(turn, flag, harness)

-----------------------------------------------------------------------------
(* Numbers and subsets                                                      *)

(* A set of naturals has a least one.                                       *)
LEMMA LeastNatural ==
  ASSUME NEW S \in SUBSET Nat, S # {} PROVE \E x \in S : \A y \in S : x <= y
<1>1. IsWellFoundedOn({ss \in Nat \X Nat : ss[1] < ss[2]}, Nat)
  BY NatLessThanWellFounded, Zenon DEF OpToRel
<1>2. \E x \in S : \A y \in S : ~(<<y, x>> \in {ss \in Nat \X Nat : ss[1] < ss[2]})
  BY <1>1, WFMin, Zenon
<1>3. PICK x \in S : \A y \in S : ~(<<y, x>> \in {ss \in Nat \X Nat : ss[1] < ss[2]})
  BY <1>2
<1>4. ASSUME NEW y \in S PROVE x <= y
  <2>1. x \in Nat /\ y \in Nat /\ <<y, x>> \in Nat \X Nat
    OBVIOUS
  <2>2. ~(y < x)
    BY <1>3, <2>1
  <2> QED BY <2>1, <2>2
<1> QED BY <1>4

(* A set of line numbers has a greatest one.                                *)
LEMMA GreatestLine ==
  ASSUME NEW n \in Nat, NEW S \in SUBSET (1..n), S # {} PROVE \E x \in S : \A y \in S : y <= x
<1> DEFINE U == {m \in Nat : \A y \in S : y <= m}
<1>1. n \in U
  OBVIOUS
<1>2. PICK m \in U : \A k \in U : m <= k
  <2>1. U \in SUBSET Nat /\ U # {}
    BY <1>1
  <2> HIDE DEF U
  <2> QED BY <2>1, LeastNatural
<1>3. m \in Nat /\ \A y \in S : y <= m
  BY <1>2
<1>4. m \in S
  <2> SUFFICES ASSUME m \notin S PROVE FALSE
    OBVIOUS
  <2>1. PICK y0 \in S : TRUE
    OBVIOUS
  <2>2. m >= 1
    BY <1>3, <2>1
  <2>3. ASSUME NEW y \in S PROVE y <= m - 1
    <3>1. y \in Int /\ y <= m /\ y # m
      BY <1>3
    <3> QED BY <1>3, <3>1
  <2>4. m - 1 \in U
    BY <1>3, <2>2, <2>3
  <2> QED BY <1>2, <1>3, <2>4
<1> QED BY <1>3, <1>4

(* A finite set has subsets of every smaller size.                          *)
LEMMA SubsetOfSize ==
  ASSUME NEW S, IsFiniteSet(S), NEW n \in Nat, n <= Cardinality(S)
  PROVE  \E T \in SUBSET S : Cardinality(T) = n
<1> DEFINE K == {k \in Nat : k >= n /\ \E T \in SUBSET S : Cardinality(T) = k}
<1>1. Cardinality(S) \in K
  BY FS_CardinalityType
<1>2. PICK k \in K : \A j \in K : k <= j
  <2>1. K \in SUBSET Nat /\ K # {}
    BY <1>1
  <2> HIDE DEF K
  <2> QED BY <2>1, LeastNatural
<1>3. PICK T \in SUBSET S : Cardinality(T) = k
  BY <1>2
<1>4. k \in Nat /\ k >= n
  BY <1>2
<1>5. k = n
  <2> SUFFICES ASSUME k > n PROVE FALSE
    BY <1>4
  <2>1. IsFiniteSet(T)
    BY FS_Subset
  <2>2. T # {}
    BY <1>3, <1>4, FS_EmptySet
  <2>3. PICK x \in T : TRUE
    BY <2>2
  <2>4. Cardinality(T \ {x}) = k - 1
    BY <1>3, <2>1, <2>3, FS_RemoveElement
  <2>5. T \ {x} \in SUBSET S /\ k - 1 \in Nat /\ k - 1 >= n
    BY <1>4
  <2>6. k - 1 \in K
    BY <2>4, <2>5
  <2> QED BY <1>2, <1>4, <2>6
<1> QED BY <1>3, <1>5

-----------------------------------------------------------------------------
(* The transcript                                                           *)

(* The lines of a kind are finitely many.                                   *)
LEMMA AtFinite ==
  ASSUME NEW t \in Seq(Lines), NEW kind
  PROVE  IsFiniteSet(At(t, kind)) /\ Cardinality(At(t, kind)) \in Nat
<1>1. IsFiniteSet(1..Len(t))
  BY FS_Interval
<1>2. At(t, kind) \in SUBSET (1..Len(t))
  BY DEF At
<1>3. IsFiniteSet(At(t, kind))
  BY <1>1, <1>2, FS_Subset
<1> QED BY <1>3, FS_CardinalityType

(* A line is written.                                                       *)
LEMMA WrittenAt ==
  ASSUME NEW t \in Seq(Lines), NEW line \in Lines, NEW kind
  PROVE  /\ Append(t, line) \in Seq(Lines)
         /\ At(Append(t, line), kind) = IF kind = line THEN At(t, kind) \cup {Len(t) + 1} ELSE At(t, kind)
         /\ Len(t) + 1 \notin At(t, kind) /\ \A i \in At(t, kind) : i < Len(t) + 1
<1>1. /\ Append(t, line) \in Seq(Lines) /\ Len(Append(t, line)) = Len(t) + 1
      /\ Append(t, line)[Len(t) + 1] = line /\ \A i \in 1..Len(t) : Append(t, line)[i] = t[i]
  OBVIOUS
<1>2. Len(t) \in Nat /\ DOMAIN t = 1..Len(t) /\ DOMAIN Append(t, line) = 1..(Len(t) + 1)
  BY <1>1
<1> QED BY <1>1, <1>2 DEF At

(* A line that is neither an answer nor a Stage 2 prompt changes nothing.   *)
LEMMA PlainLine ==
  ASSUME NEW t, AsksOK(t), NEW line \in Lines \ {"answer", "ask2"} PROVE AsksOK(Append(t, line))
<1>1. t \in Seq(Lines)
  BY DEF AsksOK
<1>2. /\ At(Append(t, line), "ask2") = At(t, "ask2") /\ At(Append(t, line), "answer") = At(t, "answer")
      /\ Append(t, line) \in Seq(Lines)
  BY <1>1, WrittenAt
<1> QED BY <1>2 DEF AsksOK, Unasked

(* An answer may be asked about once.                                       *)
LEMMA AnswerLine == ASSUME NEW t, AsksOK(t) PROVE AsksOK(Append(t, "answer"))
<1> DEFINE u == Append(t, "answer")
           i == Len(t) + 1
<1>1. t \in Seq(Lines) /\ "answer" \in Lines
  BY DEF AsksOK, Lines
<1>2. /\ At(u, "ask2") = At(t, "ask2") /\ At(u, "answer") = At(t, "answer") \cup {i}
      /\ i \notin At(t, "answer") /\ u \in Seq(Lines)
  BY <1>1, WrittenAt
<1> HIDE DEF u, i
<1>3. Cardinality(At(u, "answer")) = Cardinality(At(t, "answer")) + 1
  BY <1>1, <1>2, AtFinite, FS_AddElement
<1>4. Cardinality(At(t, "ask2")) \in Nat /\ Cardinality(At(t, "answer")) \in Nat
  BY <1>1, AtFinite
<1>5. AsksOK(u)
  BY <1>2, <1>3, <1>4 DEF AsksOK
<1> QED BY <1>5 DEF u

(* A Stage 2 prompt uses up the answer it is about.                         *)
LEMMA Ask2Line == ASSUME NEW t, AsksOK(t), Unasked(t) PROVE AsksOK(Append(t, "ask2"))
<1> DEFINE u == Append(t, "ask2")
           i == Len(t) + 1
<1>1. t \in Seq(Lines) /\ "ask2" \in Lines
  BY DEF AsksOK, Lines
<1>2. /\ At(u, "answer") = At(t, "answer") /\ At(u, "ask2") = At(t, "ask2") \cup {i}
      /\ i \notin At(t, "ask2") /\ u \in Seq(Lines) /\ i \in Nat /\ \A a \in At(t, "answer") : a < i /\ a \in Nat
  <2>1. \A a \in At(t, "answer") : a \in Nat
    BY <1>1 DEF At
  <2> QED BY <1>1, <2>1, WrittenAt
<1> HIDE DEF u, i
<1>3. Cardinality(At(u, "ask2")) = Cardinality(At(t, "ask2")) + 1
  BY <1>1, <1>2, AtFinite, FS_AddElement
<1>4. Cardinality(At(t, "ask2")) \in Nat /\ Cardinality(At(t, "answer")) \in Nat
  BY <1>1, AtFinite
<1>5. ~Unasked(u)
  <2>1. i \in At(u, "ask2")
    BY <1>2
  <2>2. \A a \in At(u, "answer") : ~(i < a)
    BY <1>2
  <2> QED BY <2>1, <2>2 DEF Unasked
<1>6. AsksOK(u)
  BY <1>2, <1>3, <1>4, <1>5 DEF AsksOK
<1> QED BY <1>6 DEF u

(* The last line of some kinds.                                             *)
LEMMA LastIs ==
  ASSUME transcript \in Seq(Lines), NEW kinds
  PROVE  /\ Last(kinds) \in Nat
         /\ \A i \in DOMAIN transcript : transcript[i] \in kinds => i <= Last(kinds)
         /\ Last(kinds) > 0 => Last(kinds) \in DOMAIN transcript /\ transcript[Last(kinds)] \in kinds
<1> DEFINE at == {i \in DOMAIN transcript : transcript[i] \in kinds}
<1>1. Len(transcript) \in Nat /\ at \in SUBSET (1..Len(transcript)) /\ DOMAIN transcript = 1..Len(transcript)
  OBVIOUS
<1>2. Last(kinds) = IF at = {} THEN 0 ELSE CHOOSE i \in at : \A j \in at : j <= i
  BY DEF Last
<1>3. CASE at = {}
  BY <1>2, <1>3
<1>4. CASE at # {}
  <2>1. \E i \in at : \A j \in at : j <= i
    <3> HIDE DEF at
    <3> QED BY <1>1, <1>4, GreatestLine
  <2>2. Last(kinds) \in at /\ \A j \in at : j <= Last(kinds)
    <3> HIDE DEF at
    <3> QED BY <1>2, <1>4, <2>1
  <2> QED BY <1>1, <2>2
<1> QED BY <1>3, <1>4

-----------------------------------------------------------------------------
(* The self-critique gate                                                   *)

(* Both counters of the stages are set.                                     *)
LEMMA StagesSet ==
  ASSUME NEW c \in Critiques, NEW n \in 0..2, NEW s \in 0..1
  PROVE  [c EXCEPT !.count = n, !.stage2 = s] \in Critiques
BY DEF Critiques

(* Counting from new keeps the limits.                                      *)
LEMMA Recount ==
  ASSUME NEW c, CritiqueOK(c), NEW d \in Critiques, d.fires = c.fires, d.cap = c.cap, d.asks = c.asks,
         d.count = 0 \/ d.count = c.count
  PROVE  CritiqueOK(d)
BY DEF CritiqueOK

(* Stage 1 asks at most twice in an episode, and begins at most as many     *)
(* episodes as the cap of the session.                                      *)
LEMMA Stage1OK ==
  ASSUME NEW c, CritiqueOK(c), NEW roll \in Nat, roll > 0
  PROVE  CritiqueOK(Stage1(c, roll).files) /\ Stage1(c, roll).ask \in {"none", "ask1"}
<1> DEFINE cap == IF c.cap > 0 THEN c.cap ELSE roll
<1>1. c \in Critiques
  BY DEF CritiqueOK
<1>2. cap \in Nat /\ cap > 0 /\ c.fires <= cap /\ (c.cap > 0 => cap = c.cap)
  BY <1>1 DEF CritiqueOK, Critiques
<1>3. CASE RetriesSpent(c.count)
  <2> DEFINE d == [c EXCEPT !.count = 0]
  <2>1. Stage1(c, roll) = Quiet(d)
    BY <1>3 DEF Stage1
  <2>2. d \in Critiques /\ d.fires = c.fires /\ d.cap = c.cap /\ d.asks = c.asks /\ d.count = 0
    BY <1>1 DEF Critiques
  <2> HIDE DEF d
  <2>3. CritiqueOK(d)
    BY <2>2, Recount
  <2> QED BY <2>1, <2>3 DEF Quiet
<1>4. CASE ~RetriesSpent(c.count) /\ NewEpisode(c.count) /\ c.fires >= cap
  <2> DEFINE d == [c EXCEPT !.cap = cap]
  <2>1. Stage1(c, roll) = Quiet(d)
    <3>1. ~RetriesSpent(c.count) /\ NewEpisode(c.count) /\ c.fires >= cap /\ ~(c.fires < cap)
      BY <1>1, <1>2, <1>4 DEF Critiques
    <3> QED BY <3>1 DEF Stage1
  <2> HIDE DEF cap
  <2>2. d \in Critiques /\ d.fires = c.fires /\ d.cap = cap /\ d.asks = c.asks /\ d.count = c.count
    BY <1>1, <1>2 DEF Critiques
  <2> HIDE DEF d
  <2>3. CritiqueOK(d)
    BY <1>2, <2>2 DEF CritiqueOK
  <2> QED BY <2>1, <2>3 DEF Quiet
<1>5. CASE ~RetriesSpent(c.count) /\ NewEpisode(c.count) /\ ~(c.fires >= cap)
  <2> DEFINE d == [c EXCEPT !.cap = cap, !.fires = @ + 1, !.count = @ + 1, !.asks = @ + 1]
  <2>1. c.fires < cap
    BY <1>1, <1>2, <1>5 DEF Critiques
  <2>2. Stage1(c, roll) = [files |-> d, ask |-> "ask1"]
    BY <1>5, <2>1 DEF Stage1
  <2>3. c.count = 0
    BY <1>5 DEF NewEpisode
  <2> HIDE DEF cap
  <2>4. d \in Critiques /\ d.fires = c.fires + 1 /\ d.cap = cap /\ d.asks = c.asks + 1 /\ d.count = 1
    <3> DEFINE f == c.fires + 1
               a == c.asks + 1
               e == [c EXCEPT !.cap = cap, !.fires = f, !.count = 1, !.asks = a]
    <3>1. f \in Nat /\ a \in Nat /\ 1 \in 0..2
      BY <1>1 DEF Critiques
    <3>2. d = e
      BY <2>3
    <3>3. e \in Critiques
      <4> HIDE DEF f, a
      <4> QED BY <1>1, <1>2, <3>1 DEF Critiques
    <3>4. e.fires = f /\ e.cap = cap /\ e.asks = a /\ e.count = 1
      <4> HIDE DEF f, a
      <4> QED BY <1>1 DEF Critiques
    <3> QED BY <3>2, <3>3, <3>4
  <2> HIDE DEF d
  <2>5. CritiqueOK(d)
    <3>1. c.asks \in Nat /\ c.fires \in Nat /\ c.asks <= 2 * c.fires
      BY <1>1 DEF CritiqueOK, Critiques
    <3>2. c.asks + 1 + 1 <= 2 * (c.fires + 1) /\ c.asks + 1 <= 2 * (c.fires + 1) /\ c.fires + 1 <= cap
      BY <1>2, <2>1, <3>1
    <3> QED BY <1>2, <2>4, <3>2 DEF CritiqueOK
  <2> QED BY <2>2, <2>5
<1>6. CASE ~RetriesSpent(c.count) /\ ~NewEpisode(c.count)
  <2> DEFINE d == [c EXCEPT !.count = @ + 1, !.asks = @ + 1]
  <2>1. Stage1(c, roll) = [files |-> d, ask |-> "ask1"]
    BY <1>6 DEF Stage1
  <2>2. c.count = 1
    BY <1>1, <1>6 DEF RetriesSpent, NewEpisode, Critiques
  <2>3. d \in Critiques /\ d.fires = c.fires /\ d.cap = c.cap /\ d.asks = c.asks + 1 /\ d.count = 2
    <3> DEFINE a == c.asks + 1
               e == [c EXCEPT !.count = 2, !.asks = a]
    <3>1. a \in Nat /\ 2 \in 0..2
      BY <1>1 DEF Critiques
    <3>2. d = e
      BY <2>2
    <3>3. e \in Critiques
      <4> HIDE DEF a
      <4> QED BY <1>1, <3>1 DEF Critiques
    <3>4. e.fires = c.fires /\ e.cap = c.cap /\ e.asks = a /\ e.count = 2
      <4> HIDE DEF a
      <4> QED BY <1>1 DEF Critiques
    <3> QED BY <3>2, <3>3, <3>4
  <2> HIDE DEF d
  <2>4. CritiqueOK(d)
    BY <2>2, <2>3 DEF CritiqueOK
  <2> QED BY <2>1, <2>4
<1> QED BY <1>3, <1>4, <1>5, <1>6

(* Stage 2 only resets, or asks where no Stage 2 prompt follows the answer. *)
LEMMA Stage2OK ==
  ASSUME NEW c, CritiqueOK(c)
  PROVE  /\ CritiqueOK(Stage2(c).files) /\ Stage2(c).ask \in {"none", "ask2"}
         /\ Stage2(c).ask = "ask2" => ~Closed(Last({"answer", "ask1"}))
<1> DEFINE marker == Last({"answer", "ask1"})
<1>1. c \in Critiques
  BY DEF CritiqueOK
<1>2. CASE Closed(marker)
  <2> DEFINE d == [c EXCEPT !.count = 0, !.stage2 = 0]
  <2>1. Stage2(c) = Quiet(d)
    BY <1>2 DEF Stage2
  <2>2. d \in Critiques /\ d.fires = c.fires /\ d.cap = c.cap /\ d.asks = c.asks /\ d.count = 0
    <3>1. d \in Critiques
      <4>1. 0 \in 0..2 /\ 0 \in 0..1
        OBVIOUS
      <4> QED BY <1>1, <4>1, StagesSet
    <3>2. d.fires = c.fires /\ d.cap = c.cap /\ d.asks = c.asks
      BY <1>1 DEF Critiques
    <3>3. d.count = 0
      BY <1>1 DEF Critiques
    <3> QED BY <3>1, <3>2, <3>3
  <2> HIDE DEF d
  <2>3. CritiqueOK(d)
    BY <2>2, Recount
  <2> QED BY <2>1, <2>3 DEF Quiet
<1>3. CASE ~Closed(marker) /\ c.stage2 >= 1
  <2> DEFINE d == [c EXCEPT !.stage2 = 0]
  <2>1. Stage2(c) = Quiet(d)
    BY <1>3 DEF Stage2
  <2>2. d \in Critiques /\ d.fires = c.fires /\ d.cap = c.cap /\ d.asks = c.asks /\ d.count = c.count
    BY <1>1 DEF Critiques
  <2> HIDE DEF d
  <2>3. CritiqueOK(d)
    BY <2>2, Recount
  <2> QED BY <2>1, <2>3 DEF Quiet
<1>4. CASE ~Closed(marker) /\ ~(c.stage2 >= 1)
  <2> DEFINE d == [c EXCEPT !.stage2 = 1]
  <2>1. Stage2(c) = [files |-> d, ask |-> "ask2"]
    BY <1>4 DEF Stage2
  <2>2. d \in Critiques /\ d.fires = c.fires /\ d.cap = c.cap /\ d.asks = c.asks /\ d.count = c.count
    BY <1>1 DEF Critiques
  <2> HIDE DEF d
  <2>3. CritiqueOK(d)
    BY <2>2, Recount
  <2> QED BY <1>4, <2>1, <2>3
<1> QED BY <1>2, <1>3, <1>4

(* After the last question an answer stands, and after it no Stage 2        *)
(* prompt: that answer was not asked about.                                 *)
LEMMA AnswerUnasked ==
  ASSUME transcript \in Seq(Lines), Last({"ask1"}) > 0, Has("answer", WindowStart),
         ~Closed(Last({"answer", "ask1"}))
  PROVE  Unasked(transcript)
<1> DEFINE m == Last({"answer", "ask1"})
           q == Last({"ask1"})
<1>1. WindowStart = q + 1
  BY DEF WindowStart
<1>2. PICK a \in DOMAIN transcript : a >= q + 1 /\ transcript[a] = "answer"
  BY <1>1 DEF Has
<1>3. q \in Nat /\ \A i \in DOMAIN transcript : transcript[i] = "ask1" => i <= q
  BY LastIs
<1>4. /\ m \in Nat /\ \A i \in DOMAIN transcript : transcript[i] \in {"answer", "ask1"} => i <= m
      /\ m > 0 => m \in DOMAIN transcript /\ transcript[m] \in {"answer", "ask1"}
  BY LastIs
<1> HIDE DEF m, q
<1>5. DOMAIN transcript \subseteq Nat /\ a \in Nat /\ a > 0
  OBVIOUS
<1>6. a <= m /\ m > 0 /\ m > q
  BY <1>2, <1>3, <1>4, <1>5
<1>7. m \in DOMAIN transcript /\ transcript[m] = "answer"
  <2>1. m \in DOMAIN transcript /\ transcript[m] \in {"answer", "ask1"}
    BY <1>4, <1>6
  <2>2. transcript[m] # "ask1"
    BY <1>3, <1>4, <1>6, <2>1
  <2> QED BY <2>1, <2>2
<1>8. ~Has("ask2", m)
  BY DEF Closed, m
<1>9. ASSUME NEW i \in DOMAIN transcript, transcript[i] = "ask2" PROVE i < m
  BY <1>4, <1>5, <1>8, <1>9 DEF Has
<1> QED BY <1>7, <1>9 DEF Unasked, At

(* The whole gate.                                                          *)
LEMMA CritiqueGateOK ==
  ASSUME GateInv, NEW roll \in 1..MaxCap
  PROVE  LET g == CritiqueGate(roll)
         IN /\ CritiqueOK(g.files) /\ g.ask \in {"none", "ask1", "ask2"}
            /\ g.ask = "ask2" => Unasked(transcript)
<1> DEFINE fresh == Last({"user"}) > Last({"ask1"})
           c == IF fresh THEN [critique EXCEPT !.count = 0, !.stage2 = 0] ELSE critique
           answered == Last({"ask1"}) > 0 /\ Has("answer", WindowStart)
<1>1. CritiqueOK(critique) /\ critique \in Critiques /\ transcript \in Seq(Lines)
  BY DEF GateInv, CritiqueOK, AsksOK
<1>2. CritiqueOK(c)
  <2> DEFINE d == [critique EXCEPT !.count = 0, !.stage2 = 0]
  <2>1. /\ d \in Critiques /\ d.fires = critique.fires /\ d.cap = critique.cap
        /\ d.asks = critique.asks /\ d.count = 0
    <3>1. d \in Critiques
      <4>1. 0 \in 0..2 /\ 0 \in 0..1
        OBVIOUS
      <4> QED BY <1>1, <4>1, StagesSet
    <3>2. /\ d.fires = critique.fires /\ d.cap = critique.cap
          /\ d.asks = critique.asks /\ d.count = 0
      BY <1>1 DEF Critiques
    <3> QED BY <3>1, <3>2
  <2>2. c = d \/ c = critique
    OBVIOUS
  <2> HIDE DEF d, c
  <2>3. CritiqueOK(d)
    BY <1>1, <2>1, Recount
  <2> QED BY <1>1, <2>2, <2>3
<1>3. roll \in Nat /\ roll > 0
  BY GateConstants
<1>4. CASE ~harness.readable
  <2>1. CritiqueGate(roll) = Quiet(critique)
    BY <1>4 DEF CritiqueGate
  <2> QED BY <1>1, <2>1 DEF Quiet
<1>5. CASE harness.readable /\ answered
  <2>1. CritiqueGate(roll) = Stage2(c)
    BY <1>5 DEF CritiqueGate
  <2> HIDE DEF c
  <2>2. /\ CritiqueOK(Stage2(c).files) /\ Stage2(c).ask \in {"none", "ask2"}
        /\ Stage2(c).ask = "ask2" => ~Closed(Last({"answer", "ask1"}))
    BY <1>2, Stage2OK
  <2>3. Stage2(c).ask = "ask2" => Unasked(transcript)
    BY <1>1, <1>5, <2>2, AnswerUnasked
  <2> QED BY <2>1, <2>2, <2>3
<1>6. CASE harness.readable /\ ~answered /\ Has("risky", WindowStart)
  <2>1. CritiqueGate(roll) = Stage1(c, roll)
    BY <1>6 DEF CritiqueGate
  <2> HIDE DEF c
  <2>2. CritiqueOK(Stage1(c, roll).files) /\ Stage1(c, roll).ask \in {"none", "ask1"}
    BY <1>2, <1>3, Stage1OK
  <2> QED BY <2>1, <2>2
<1>7. CASE harness.readable /\ ~answered /\ ~Has("risky", WindowStart)
  <2>1. CritiqueGate(roll) = Quiet(c)
    BY <1>7 DEF CritiqueGate
  <2> HIDE DEF c
  <2> QED BY <1>2, <2>1 DEF Quiet
<1> QED BY <1>4, <1>5, <1>6, <1>7

-----------------------------------------------------------------------------
(* The related memories                                                     *)

(* What is listed was not shown before, and a guarded or spent hook lists   *)
(* nothing.                                                                 *)
LEMMA RowsAreFresh ==
  ASSUME GateInv, NEW rows \in SUBSET MemoryIds, NEW stale \in BOOLEAN
  PROVE  LET listed == RelatedRows(rows, stale)
         IN /\ listed \in SUBSET (MemoryIds \ related.shown)
            /\ listed # {} => ~Guarded(stale) /\ ~(related.prompts >= MaxPrompts)
<1> DEFINE fresh == rows \ (related.shown \cup (IF harness.readable THEN related.seen ELSE {}))
           listed == RelatedRows(rows, stale)
<1>1. CASE Guarded(stale) \/ related.prompts >= MaxPrompts
  BY <1>1 DEF RelatedRows
<1>2. CASE ~(Guarded(stale) \/ related.prompts >= MaxPrompts)
  <2>1. listed = IF Cardinality(fresh) <= MaxListed THEN fresh
                 ELSE CHOOSE s \in SUBSET fresh : Cardinality(s) = MaxListed
    BY <1>2 DEF RelatedRows
  <2>2. fresh \in SUBSET (MemoryIds \ related.shown)
    OBVIOUS
  <2> HIDE DEF fresh, listed
  <2>3. IsFiniteSet(fresh)
    <3>1. fresh \in SUBSET MemoryIds /\ IsFiniteSet(MemoryIds)
      BY <2>2, GateConstants
    <3> QED BY <3>1, FS_Subset
  <2>4. Cardinality(fresh) \in Nat /\ MaxListed \in Nat
    BY <2>3, FS_CardinalityType, GateConstants
  <2>5. CASE Cardinality(fresh) <= MaxListed
    BY <1>2, <2>1, <2>2, <2>5 DEF listed
  <2>6. CASE ~(Cardinality(fresh) <= MaxListed)
    <3>1. \E s \in SUBSET fresh : Cardinality(s) = MaxListed
      <4>1. MaxListed <= Cardinality(fresh)
        BY <2>4, <2>6
      <4> QED BY <2>3, <2>4, <4>1, SubsetOfSize
    <3>2. listed \in SUBSET fresh
      BY <2>1, <2>6, <3>1
    <3> QED BY <1>2, <2>2, <3>2 DEF listed
  <2> QED BY <2>5, <2>6
<1> QED BY <1>1, <1>2

(* What was listed is remembered.                                           *)
LEMMA RelatedStateOK ==
  ASSUME GateInv, NEW listed \in SUBSET (MemoryIds \ related.shown),
         listed # {} => ~(related.prompts >= MaxPrompts)
  PROVE  RelatedOK(RelatedState(listed))
<1>1. /\ related \in Lists /\ related.seen \subseteq related.shown /\ ~related.again
      /\ related.prompts <= MaxPrompts
  BY DEF GateInv, RelatedOK
<1>2. MaxPrompts \in Nat
  BY GateConstants
<1>3. CASE listed = {}
  <2> DEFINE d == [related EXCEPT !.pending = FALSE]
  <2>1. RelatedState(listed) = d
    BY <1>3 DEF RelatedState
  <2>2. /\ d \in Lists /\ d.seen = related.seen /\ d.shown = related.shown
        /\ d.again = related.again /\ d.prompts = related.prompts
    BY <1>1 DEF Lists
  <2> HIDE DEF d
  <2> QED BY <1>1, <2>1, <2>2 DEF RelatedOK
<1>4. CASE listed # {}
  <2> DEFINE p == related.prompts + 1
             sh == Remember(listed)
             se == related.seen \cup listed
             ag == related.again \/ (listed \cap related.seen # {})
             d == [related EXCEPT !.prompts = p, !.pending = TRUE, !.shown = sh, !.seen = se, !.again = ag]
  <2>1. RelatedState(listed) = d
    BY <1>4 DEF RelatedState
  <2>2. p \in Nat /\ p <= MaxPrompts
    BY <1>1, <1>2, <1>4 DEF Lists
  <2>3. sh \in SUBSET MemoryIds /\ se \in SUBSET MemoryIds /\ se \subseteq sh
    BY <1>1 DEF Lists, Remember
  <2>4. ag = FALSE
    BY <1>1
  <2> HIDE DEF p, sh, se, ag
  <2>5. d \in Lists /\ d.seen = se /\ d.shown = sh /\ d.again = FALSE /\ d.prompts = p
    BY <1>1, <2>2, <2>3, <2>4 DEF Lists
  <2> HIDE DEF d
  <2> QED BY <2>1, <2>2, <2>3, <2>5 DEF RelatedOK
<1> QED BY <1>3, <1>4

-----------------------------------------------------------------------------
(* The steps of a session                                                   *)

(* What the invariant says.                                                 *)
LEMMA GateParts ==
  GateInv => /\ AsksOK(transcript) /\ CritiqueOK(critique) /\ RelatedOK(related)
             /\ turn \in TurnStates /\ flag \in Flags /\ harness \in Harnesses
             /\ turn.lists \in Nat /\ flag.outcome \in 0..2
             /\ turn.open \in BOOLEAN /\ turn.blocked \in BOOLEAN /\ turn.silent \in BOOLEAN
BY DEF GateInv, TurnOK, TurnStates, Flags

(* Lines that only the transcript shows.                                    *)
LEMMA LineOK ==
  ASSUME GateInv, RiskyTool \/ StoreMemory \/ Answer PROVE GateInv'
<1>1. UNCHANGED <<turn, critique, flag, related, harness>>
  BY DEF RiskyTool, StoreMemory, Answer
<1>2. AsksOK(transcript')
  <2>1. CASE RiskyTool
    <3>1. transcript' = Append(transcript, "risky") /\ "risky" \in Lines \ {"answer", "ask2"}
      BY <2>1 DEF RiskyTool, Write, Lines
    <3> QED BY <3>1, PlainLine, GateParts
  <2>2. CASE StoreMemory
    <3>1. transcript' = Append(transcript, "store") /\ "store" \in Lines \ {"answer", "ask2"}
      BY <2>2 DEF StoreMemory, Write, Lines
    <3> QED BY <3>1, PlainLine, GateParts
  <2>3. CASE Answer
    <3>1. transcript' = Append(transcript, "answer")
      BY <2>3 DEF Answer, Write
    <3> QED BY <3>1, AnswerLine, GateParts
  <2> QED BY <2>1, <2>2, <2>3
<1> QED BY <1>1, <1>2 DEF GateInv

(* A search, with the flags of its hook or without.                         *)
LEMMA SearchMemoryOK == ASSUME GateInv, NEW hooked \in BOOLEAN, SearchMemory(hooked) PROVE GateInv'
<1>1. /\ turn.open /\ transcript' = Append(transcript, "search")
      /\ flag' = IF hooked THEN SearchFlags ELSE flag
      /\ turn' = [turn EXCEPT !.silent = @ \/ hooked]
      /\ UNCHANGED <<critique, related, harness>>
  BY DEF SearchMemory, Write
<1>2. AsksOK(transcript')
  <2>1. "search" \in Lines \ {"answer", "ask2"}
    BY DEF Lines
  <2> QED BY <1>1, <2>1, PlainLine, GateParts
<1>3. TurnOK(turn', flag', harness)
  <2>1. TurnOK(turn, flag, harness)
    BY DEF GateInv
  <2> DEFINE si == turn.silent \/ hooked
  <2>2. si \in BOOLEAN /\ turn' = [turn EXCEPT !.silent = si]
    BY <1>1
  <2> HIDE DEF si
  <2>3. /\ turn' \in TurnStates /\ turn'.open = turn.open /\ turn'.blocked = turn.blocked
        /\ turn'.lists = turn.lists /\ turn'.silent = si
    BY <2>2, GateParts DEF TurnStates
  <2>4. flag' \in Flags /\ (si => flag'.outcome = 1)
    <3>1. CASE hooked
      BY <1>1, <3>1 DEF SearchFlags, Flags
    <3>2. CASE ~hooked
      BY <1>1, <2>1, <3>2 DEF TurnOK, si
    <3> QED BY <3>1, <3>2
  <2> QED BY <1>1, <2>1, <2>3, <2>4 DEF TurnOK
<1> QED BY <1>1, <1>2, <1>3 DEF GateInv

(* The agent reports on its search.                                         *)
LEMMA LogOutcomeOK == ASSUME GateInv, LogOutcome PROVE GateInv'
<1>1. /\ flag' = [flag EXCEPT !.outcome = 0] /\ turn' = [turn EXCEPT !.silent = FALSE]
      /\ UNCHANGED <<transcript, critique, related, harness>>
  BY DEF LogOutcome
<1>2. TurnOK(turn, flag, harness)
  BY DEF GateInv
<1>3. /\ turn' \in TurnStates /\ turn'.open = turn.open /\ turn'.blocked = turn.blocked
      /\ turn'.lists = turn.lists /\ turn'.silent = FALSE
  BY <1>1, GateParts DEF TurnStates
<1>4. flag' \in Flags
  BY <1>1, GateParts DEF Flags
<1>5. TurnOK(turn', flag', harness)
  BY <1>2, <1>3, <1>4 DEF TurnOK
<1> QED BY <1>1, <1>5 DEF GateInv

(* The user prompts again.                                                  *)
LEMMA NewPromptOK == ASSUME GateInv, NewPrompt PROVE GateInv'
<1> DEFINE m == turn.n + 1
<1>1. /\ transcript' = Append(transcript, "user") /\ turn' = [OpenTurn EXCEPT !.n = m]
      /\ UNCHANGED <<critique, flag, related, harness>>
  BY DEF NewPrompt, Write
<1>2. AsksOK(transcript')
  <2>1. "user" \in Lines \ {"answer", "ask2"}
    BY DEF Lines
  <2> QED BY <1>1, <2>1, PlainLine, GateParts
<1>3. m \in Nat
  BY GateParts DEF TurnStates
<1> HIDE DEF m
<1>4. turn' \in TurnStates /\ turn'.lists = 0 /\ turn'.silent = FALSE
  BY <1>1, <1>3 DEF OpenTurn, TurnStates
<1>5. TurnOK(turn', flag', harness)
  BY <1>1, <1>4, GateParts DEF TurnOK
<1> QED BY <1>1, <1>2, <1>5 DEF GateInv

(* All gates run when the agent wants to stop.                              *)
LEMMA StopEventOK ==
  ASSUME GateInv, NEW roll \in 1..MaxCap, NEW rows \in SUBSET MemoryIds, NEW stale \in BOOLEAN,
         StopEvent(roll, rows, stale)
  PROVE  GateInv'
<1> DEFINE crit == CritiqueGate(roll)
           listed == RelatedRows(rows, stale)
           nudge == flag.outcome = 1
           blocks == crit.ask # "none" \/ listed # {} \/ nudge
           more == IF listed = {} THEN turn.lists ELSE turn.lists + 1
           si == turn.silent /\ ~nudge
<1>1. /\ turn.open /\ critique' = crit.files
      /\ transcript' = IF crit.ask = "none" THEN transcript ELSE Append(transcript, crit.ask)
      /\ flag' = OutcomeGate /\ related' = RelatedState(listed)
      /\ turn' = [turn EXCEPT !.open = blocks, !.blocked = blocks, !.lists = more, !.silent = si]
      /\ UNCHANGED harness
  BY DEF StopEvent
<1>2. /\ CritiqueOK(crit.files) /\ crit.ask \in {"none", "ask1", "ask2"}
      /\ crit.ask = "ask2" => Unasked(transcript)
  BY CritiqueGateOK
<1>3. /\ listed \in SUBSET (MemoryIds \ related.shown)
      /\ listed # {} => ~Guarded(stale) /\ ~(related.prompts >= MaxPrompts)
  BY RowsAreFresh
<1>4. RelatedOK(RelatedState(listed))
  <2> HIDE DEF listed
  <2> QED BY <1>3, RelatedStateOK
<1>5. TurnOK(turn, flag, harness)
  BY DEF GateInv
<1>6. blocks \in BOOLEAN /\ si = FALSE /\ more \in Nat
  BY <1>5, GateParts DEF TurnOK
<1>7. harness.active => more <= 1 /\ (blocks /\ more = 1 => blocks)
  <2>1. CASE listed = {}
    BY <1>5, <2>1 DEF TurnOK
  <2>2. CASE listed # {}
    <3>1. harness.active => ~turn.blocked
      BY <1>3, <2>2 DEF Guarded
    <3>2. harness.active => turn.lists = 0
      BY <1>1, <1>5, <3>1, GateParts DEF TurnOK
    <3> QED BY <2>2, <3>2
  <2> QED BY <2>1, <2>2
<1>8. flag' \in Flags
  <2> DEFINE o == IF flag.outcome = 1 THEN Nudged ELSE 0
  <2>1. flag' = [flag EXCEPT !.outcome = o]
    BY <1>1 DEF OutcomeGate
  <2>2. o \in 0..2
    BY DEF Nudged
  <2> HIDE DEF o
  <2> QED BY <2>1, <2>2, GateParts DEF Flags
<1>9. AsksOK(transcript')
  <2> HIDE DEF crit
  <2>1. CASE crit.ask = "none"
    BY <1>1, <2>1, GateParts
  <2>2. CASE crit.ask = "ask1"
    <3>1. "ask1" \in Lines \ {"answer", "ask2"}
      BY DEF Lines
    <3>2. transcript' = Append(transcript, "ask1")
      BY <1>1, <2>2
    <3> QED BY <3>1, <3>2, PlainLine, GateParts
  <2>3. CASE crit.ask = "ask2"
    <3>1. transcript' = Append(transcript, "ask2")
      BY <1>1, <2>3
    <3> QED BY <1>2, <2>3, <3>1, Ask2Line, GateParts
  <2> QED BY <1>2, <2>1, <2>2, <2>3
<1> HIDE DEF crit, listed, nudge, blocks, more, si
<1>10. /\ turn' \in TurnStates /\ turn'.open = blocks /\ turn'.blocked = blocks
       /\ turn'.lists = more /\ turn'.silent = FALSE
  <2>1. turn' \in TurnStates
    BY <1>1, <1>6, GateParts DEF TurnStates
  <2>2. turn'.open = blocks /\ turn'.blocked = blocks /\ turn'.lists = more /\ turn'.silent = FALSE
    BY <1>1, <1>6, GateParts DEF TurnStates
  <2> QED BY <2>1, <2>2
<1>11. TurnOK(turn', flag', harness')
  BY <1>1, <1>7, <1>8, <1>10, GateParts DEF TurnOK
<1>12. CritiqueOK(critique') /\ RelatedOK(related')
  BY <1>1, <1>2, <1>4
<1> QED BY <1>9, <1>11, <1>12 DEF GateInv

-----------------------------------------------------------------------------
(* The gates of a session                                                   *)

(* A session starts with the user's line.                                   *)
LEMMA GateStart == GateInit => GateInv
<1> SUFFICES ASSUME GateInit PROVE GateInv
  OBVIOUS
<1>1. transcript = <<"user">> /\ turn = OpenTurn /\ harness \in Harnesses
  BY DEF GateInit, Harnesses
<1>2. AsksOK(transcript)
  <2>1. transcript \in Seq(Lines)
    BY <1>1 DEF Lines
  <2>2. At(transcript, "ask2") = {} /\ At(transcript, "answer") = {}
    BY <1>1 DEF At
  <2>3. Cardinality(At(transcript, "ask2")) = 0 /\ Cardinality(At(transcript, "answer")) = 0
    BY <2>2, FS_EmptySet
  <2>4. ~Unasked(transcript)
    BY <2>2 DEF Unasked
  <2> QED BY <2>1, <2>3, <2>4 DEF AsksOK
<1>3. CritiqueOK(critique)
  BY DEF GateInit, CritiqueOK, Critiques
<1>4. RelatedOK(related)
  <2>1. related = [prompts |-> 0, pending |-> FALSE, shown |-> {}, seen |-> {}, again |-> FALSE]
    BY DEF GateInit
  <2>2. MaxPrompts \in Nat
    BY GateConstants
  <2>3. related \in Lists
    BY <2>1 DEF Lists
  <2>4. related.seen = {} /\ ~related.again /\ related.prompts = 0
    BY <2>1
  <2> QED BY <2>2, <2>3, <2>4 DEF RelatedOK
<1>5. TurnOK(turn, flag, harness)
  <2>1. flag \in Flags
    BY DEF GateInit, Flags
  <2>2. turn \in TurnStates /\ turn.lists = 0 /\ turn.silent = FALSE
    BY <1>1 DEF OpenTurn, TurnStates
  <2> QED BY <1>1, <2>1, <2>2 DEF TurnOK
<1> QED BY <1>2, <1>3, <1>4, <1>5 DEF GateInv

(* Every step of the agent, the user and the harness keeps the invariant.   *)
LEMMA GateStep == GateInv /\ [GateNext]_gateVars => GateInv'
<1> SUFFICES ASSUME GateInv, [GateNext]_gateVars PROVE GateInv'
  OBVIOUS
<1>1. CASE RiskyTool \/ StoreMemory \/ Answer
  BY <1>1, LineOK
<1>2. CASE LogOutcome
  BY <1>2, LogOutcomeOK
<1>3. CASE \E hooked \in BOOLEAN : SearchMemory(hooked)
  BY <1>3, SearchMemoryOK
<1>4. CASE SomeStop
  <2>1. PICK roll \in 1..MaxCap, rows \in SUBSET MemoryIds, stale \in BOOLEAN : StopEvent(roll, rows, stale)
    BY <1>4 DEF SomeStop
  <2> QED BY <2>1, StopEventOK
<1>5. CASE NewPrompt
  BY <1>5, NewPromptOK
<1>6. CASE UNCHANGED gateVars
  BY <1>6 DEF gateVars, GateInv
<1> QED BY <1>1, <1>2, <1>3, <1>4, <1>5, <1>6 DEF GateNext

(* What the invariant says of the limits.                                   *)
LEMMA GateHolds == GateInv => GatesBounded
<1> SUFFICES ASSUME GateInv PROVE GatesBounded
  OBVIOUS
<1>1. CritiqueBounded
  BY DEF GateInv, CritiqueOK, AsksOK, At, CritiqueBounded
<1>2. ListedOnce
  BY DEF GateInv, RelatedOK, ListedOnce
<1>3. OneListPerTurn /\ SearchReported
  BY DEF GateInv, TurnOK, OneListPerTurn, SearchReported
<1> QED BY <1>1, <1>2, <1>3 DEF GatesBounded

(* For any memories, limits and length of the session, with a transcript    *)
(* that can be read or not and a harness that reports active stop hooks or  *)
(* not: the self-critique gate keeps the cap of the session, asks twice an  *)
(* episode and prompts once an answer, the related-memories hook lists no   *)
(* memory twice and, told of active stops, blocks a turn once, and no turn  *)
(* ends with a search nobody was told to report.                            *)
THEOREM GatesStayBounded == GateSpec => []GatesBounded
<1>1. GateInv /\ [GateNext]_gateVars => GateInv'
  BY GateStep
<1> QED BY <1>1, GateStart, GateHolds, PTL DEF GateSpec

-----------------------------------------------------------------------------
(* The capture of traces                                                    *)

TraceCalls == [op : {"start", "link", "complete"}, turn : Turns, arg : Nat,
               memory : TraceMemories \cup {AnyMemory}]
TraceRows == [status : {"none", "pending", "completed", "incomplete"}, messages : Seq(Nat), final : Nat,
              links : SUBSET (TraceMemories \X Nat)]
Talks == [Turns -> [messages : Nat, writes : Seq(TraceMemories), final : Nat]]
Revisions == [TraceMemories -> Nat]
Owns == SUBSET (Turns \X TraceMemories \X Nat)
Trails == [turn : Turns, ended : BOOLEAN, runs : Nat, faults : Nat, own : Owns, sent : [Turns -> Nat]]

(* The turn wrote the memory, at a revision that has been.                  *)
Owned(t, e, rev, own) == \E w \in own : w[1] = t /\ w[2] = e /\ w[3] <= rev[e]

(* A call says what its turn has said.                                      *)
CallOK(c, tk, rev, own) ==
  /\ c \in TraceCalls
  /\ c.op = "start" => 1 <= c.arg /\ c.arg <= tk[c.turn].messages
  /\ c.op = "link" => c.memory \in TraceMemories /\ Owned(c.turn, c.memory, rev, own)
  /\ c.op = "complete" => c.arg = c.turn

(* The messages before this one are stored, or ...                          *)
Ready(c, rows) == c.op = "start" => c.arg - 1 <= Len(rows[c.turn].messages)

(* ... the one before it is sent by an earlier call of the same hook.       *)
Led(s, i) == \E j \in 1..(i - 1) : s[j].op = "start" /\ s[j].turn = s[i].turn /\ s[j].arg = s[i].arg - 1

QueueOK(s, tk, rev, own, rows) ==
  /\ s \in Seq(TraceCalls)
  /\ \A i \in 1..Len(s) : CallOK(s[i], tk, rev, own) /\ (Ready(s[i], rows) \/ Led(s, i))

RowOK(t, r, tk, own) ==
  /\ r \in TraceRows
  /\ r.status = "none" => Len(r.messages) = 0
  /\ Len(r.messages) <= tk[t].messages /\ \A i \in 1..Len(r.messages) : r.messages[i] = i
  /\ r.status = "completed" => r.final = t
  /\ r.status # "completed" => r.final = 0
  /\ \A l \in r.links : \E w \in own : w[1] = t /\ w[2] = l[1] /\ w[3] <= l[2]

TalkOK(tk, rev, own, now) ==
  \A t \in Turns :
    /\ tk[t].final \in {0, t} /\ (t > now => tk[t].messages = 0)
    /\ \A i \in 1..Len(tk[t].writes) : Owned(t, tk[t].writes[i], rev, own)

TraceTypes == talk \in Talks /\ revision \in Revisions /\ trail \in Trails

TraceInv ==
  /\ TraceTypes /\ TalkOK(talk, revision, trail.own, trail.turn)
  /\ traces \in [Turns -> TraceRows]
  /\ \A t \in Turns : RowOK(t, traces[t], talk, trail.own) /\ trail.sent[t] <= Len(traces[t].messages)
  /\ \A c \in late : CallOK(c, talk, revision, trail.own) /\ Ready(c, traces)
  /\ capture = [h \in CaptureHooks |-> capture[h]]
  /\ \A h \in CaptureHooks : QueueOK(capture[h], talk, revision, trail.own, traces)

(* What was said stays said: the world of the calls only grows.             *)
Wider(tk, rev, own, tk2, rev2, own2) ==
  /\ tk \in Talks /\ rev \in Revisions /\ own \in Owns
  /\ tk2 \in Talks /\ rev2 \in Revisions /\ own2 \in Owns
  /\ \A t \in Turns : tk[t].messages <= tk2[t].messages
  /\ \A e \in TraceMemories : rev[e] <= rev2[e]
  /\ own \subseteq own2

(* A row gains messages, and a closed one stays as it was closed.           *)
Follows(a, b) ==
  /\ Len(a.messages) <= Len(b.messages)
  /\ a.status \in {"completed", "incomplete"} => b.status = a.status /\ b.final = a.final

RowsGrow(rows, rows2) ==
  /\ rows \in [Turns -> TraceRows] /\ rows2 \in [Turns -> TraceRows]
  /\ \A t \in Turns : Follows(rows[t], rows2[t])

-----------------------------------------------------------------------------
(* Growing                                                                  *)

(* A memory stays its turn's own.                                           *)
LEMMA OwnedGrows ==
  ASSUME NEW tk, NEW rev, NEW own, NEW tk2, NEW rev2, NEW own2, Wider(tk, rev, own, tk2, rev2, own2),
         NEW t, NEW e \in TraceMemories, Owned(t, e, rev, own)
  PROVE  Owned(t, e, rev2, own2)
<1>1. PICK w \in own : w[1] = t /\ w[2] = e /\ w[3] <= rev[e]
  BY DEF Owned
<1>2. w \in own2 /\ w[3] \in Nat /\ rev[e] \in Nat /\ rev2[e] \in Nat /\ rev[e] <= rev2[e]
  BY DEF Wider, Owns, Revisions
<1>3. w[3] <= rev2[e]
  BY <1>1, <1>2
<1> QED BY <1>1, <1>2, <1>3 DEF Owned

(* A call stays true.                                                       *)
LEMMA CallGrows ==
  ASSUME NEW tk, NEW rev, NEW own, NEW tk2, NEW rev2, NEW own2, Wider(tk, rev, own, tk2, rev2, own2),
         NEW c, CallOK(c, tk, rev, own)
  PROVE  CallOK(c, tk2, rev2, own2)
<1>1. c \in TraceCalls /\ c.turn \in Turns /\ c.arg \in Nat
  BY DEF CallOK, TraceCalls
<1>2. c.op = "start" => 1 <= c.arg /\ c.arg <= tk2[c.turn].messages
  <2>1. /\ tk[c.turn].messages \in Nat /\ tk2[c.turn].messages \in Nat
        /\ tk[c.turn].messages <= tk2[c.turn].messages
    BY <1>1 DEF Wider, Talks
  <2>2. c.op = "start" => 1 <= c.arg /\ c.arg <= tk[c.turn].messages
    BY DEF CallOK
  <2> QED BY <1>1, <2>1, <2>2
<1>3. c.op = "link" => c.memory \in TraceMemories /\ Owned(c.turn, c.memory, rev2, own2)
  BY OwnedGrows DEF CallOK
<1> QED BY <1>1, <1>2, <1>3 DEF CallOK

(* A row stays true.                                                        *)
LEMMA RowGrows ==
  ASSUME NEW tk, NEW rev, NEW own, NEW tk2, NEW rev2, NEW own2, Wider(tk, rev, own, tk2, rev2, own2),
         NEW t \in Turns, NEW r, RowOK(t, r, tk, own)
  PROVE  RowOK(t, r, tk2, own2)
<1>1. tk[t].messages \in Nat /\ tk2[t].messages \in Nat /\ tk[t].messages <= tk2[t].messages
  BY DEF Wider, Talks
<1>2. Len(r.messages) \in Nat /\ Len(r.messages) <= tk[t].messages
  BY DEF RowOK, TraceRows
<1>3. Len(r.messages) <= tk2[t].messages
  BY <1>1, <1>2
<1>4. own \subseteq own2
  BY DEF Wider
<1>5. \A l \in r.links : \E w \in own2 : w[1] = t /\ w[2] = l[1] /\ w[3] <= l[2]
  BY <1>4 DEF RowOK
<1> QED BY <1>3, <1>5 DEF RowOK

(* A message whose predecessors are stored stays so.                        *)
LEMMA ReadyGrows ==
  ASSUME NEW rows, NEW rows2, RowsGrow(rows, rows2), NEW c \in TraceCalls, Ready(c, rows)
  PROVE  Ready(c, rows2)
<1>1. c.turn \in Turns /\ c.arg \in Nat
  BY DEF TraceCalls
<1>2. /\ Len(rows[c.turn].messages) \in Nat /\ Len(rows2[c.turn].messages) \in Nat
      /\ Len(rows[c.turn].messages) <= Len(rows2[c.turn].messages)
  <2>1. rows[c.turn] \in TraceRows /\ rows2[c.turn] \in TraceRows /\ Follows(rows[c.turn], rows2[c.turn])
    BY <1>1 DEF RowsGrow
  <2> QED BY <2>1 DEF TraceRows, Follows
<1> QED BY <1>1, <1>2 DEF Ready

(* A queue stays in order.                                                  *)
LEMMA QueueGrows ==
  ASSUME NEW tk, NEW rev, NEW own, NEW tk2, NEW rev2, NEW own2, Wider(tk, rev, own, tk2, rev2, own2),
         NEW rows, NEW rows2, RowsGrow(rows, rows2), NEW s, QueueOK(s, tk, rev, own, rows)
  PROVE  QueueOK(s, tk2, rev2, own2, rows2)
<1>1. s \in Seq(TraceCalls)
  BY DEF QueueOK
<1>2. ASSUME NEW i \in 1..Len(s)
      PROVE  CallOK(s[i], tk2, rev2, own2) /\ (Ready(s[i], rows2) \/ Led(s, i))
  <2>1. CallOK(s[i], tk, rev, own) /\ (Ready(s[i], rows) \/ Led(s, i))
    BY DEF QueueOK
  <2>2. CallOK(s[i], tk2, rev2, own2)
    BY <2>1, CallGrows
  <2>3. s[i] \in TraceCalls
    BY <2>1 DEF CallOK
  <2> QED BY <2>1, <2>2, <2>3, ReadyGrows
<1> QED BY <1>1, <1>2 DEF QueueOK

(* The first call of a queue can run.                                       *)
LEMMA HeadReady ==
  ASSUME NEW tk, NEW rev, NEW own, NEW rows, NEW s, QueueOK(s, tk, rev, own, rows), s # <<>>
  PROVE  Head(s) = s[1] /\ CallOK(Head(s), tk, rev, own) /\ Ready(Head(s), rows)
<1>1. s \in Seq(TraceCalls) /\ 1 \in 1..Len(s) /\ Head(s) = s[1]
  BY DEF QueueOK
<1>2. CallOK(s[1], tk, rev, own) /\ (Ready(s[1], rows) \/ Led(s, 1))
  BY <1>1 DEF QueueOK
<1>3. ~Led(s, 1)
  BY DEF Led
<1> QED BY <1>1, <1>2, <1>3

(* The rest of a queue is in order once its first call was executed.        *)
LEMMA TailQueue ==
  ASSUME NEW tk, NEW rev, NEW own, NEW rows, NEW rows2, RowsGrow(rows, rows2),
         NEW s, QueueOK(s, tk, rev, own, rows), s # <<>>,
         Head(s).op = "start" => Head(s).arg <= Len(rows2[Head(s).turn].messages)
  PROVE  QueueOK(Tail(s), tk, rev, own, rows2)
<1> DEFINE u == Tail(s)
<1>1. s \in Seq(TraceCalls) /\ Head(s) = s[1]
  BY DEF QueueOK
<1>2. u \in Seq(TraceCalls) /\ Len(u) = Len(s) - 1 /\ \A i \in 1..Len(u) : u[i] = s[i + 1]
  BY <1>1
<1>3. ASSUME NEW i \in 1..Len(u)
      PROVE  CallOK(u[i], tk, rev, own) /\ (Ready(u[i], rows2) \/ Led(u, i))
  <2>1. i + 1 \in 1..Len(s) /\ u[i] = s[i + 1] /\ Len(u) \in Nat
    BY <1>1, <1>2
  <2>2. CallOK(s[i + 1], tk, rev, own) /\ (Ready(s[i + 1], rows) \/ Led(s, i + 1))
    BY <2>1 DEF QueueOK
  <2>3. u[i] \in TraceCalls /\ CallOK(u[i], tk, rev, own)
    BY <2>1, <2>2 DEF CallOK
  <2>4. CASE Ready(s[i + 1], rows)
    BY <2>1, <2>3, <2>4, ReadyGrows
  <2>5. CASE Led(s, i + 1)
    <3>1. PICK j \in 1..i : s[j].op = "start" /\ s[j].turn = u[i].turn /\ s[j].arg = u[i].arg - 1
      BY <2>1, <2>5 DEF Led
    <3>2. CASE j = 1
      <4>1. u[i].arg - 1 <= Len(rows2[u[i].turn].messages)
        BY <1>1, <3>1, <3>2
      <4> QED BY <2>3, <4>1 DEF Ready
    <3>3. CASE j # 1
      <4>1. j - 1 \in 1..(i - 1) /\ j - 1 \in 1..Len(u) /\ u[j - 1] = s[j]
        <5>1. j - 1 \in 1..(i - 1) /\ j - 1 \in 1..Len(u) /\ (j - 1) + 1 = j
          BY <2>1, <3>3
        <5> QED BY <1>2, <5>1
      <4>2. Led(u, i)
        BY <3>1, <4>1 DEF Led
      <4> QED BY <2>3, <4>2
    <3> QED BY <3>2, <3>3
  <2> QED BY <2>2, <2>4, <2>5
<1> QED BY <1>2, <1>3 DEF QueueOK

-----------------------------------------------------------------------------
(* The daemon's operations on rows                                          *)

(* A row in the types of its fields.                                        *)
LEMMA RowIs ==
  ASSUME NEW r \in TraceRows
  PROVE  /\ r.status \in {"none", "pending", "completed", "incomplete"} /\ r.messages \in Seq(Nat)
         /\ Len(r.messages) \in Nat /\ r.links \in SUBSET (TraceMemories \X Nat) /\ r.final \in Nat
BY DEF TraceRows

(* A row that only closes or opens no message.                              *)
LEMMA SweptOK ==
  ASSUME NEW tk, NEW own, NEW t, NEW r, RowOK(t, r, tk, own)
  PROVE  /\ RowOK(t, Swept(r), tk, own) /\ Follows(r, Swept(r)) /\ Swept(r).messages = r.messages
<1> DEFINE d == [r EXCEPT !.status = "incomplete"]
<1>1. r \in TraceRows
  BY DEF RowOK
<1>2. CASE r.status = "pending"
  <2>1. Swept(r) = d
    BY <1>2 DEF Swept
  <2>2. /\ d \in TraceRows /\ d.messages = r.messages /\ d.final = r.final /\ d.links = r.links
        /\ d.status = "incomplete"
    BY <1>1 DEF TraceRows
  <2> HIDE DEF d
  <2>3. RowOK(t, d, tk, own)
    BY <1>2, <2>2 DEF RowOK
  <2>4. Follows(r, d)
    BY <1>1, <1>2, <2>2, RowIs DEF Follows
  <2> QED BY <2>1, <2>2, <2>3, <2>4
<1>3. CASE r.status # "pending"
  <2>1. Swept(r) = r
    BY <1>3 DEF Swept
  <2>2. Follows(r, r)
    BY <1>1, RowIs DEF Follows
  <2> QED BY <2>1, <2>2
<1> QED BY <1>2, <1>3

(* The row a turn starts with.                                              *)
LEMMA OpenedRow ==
  ASSUME NEW m \in Seq(Nat), NEW d, d = [NoTrace EXCEPT !.status = "pending", !.messages = m]
  PROVE  d \in TraceRows /\ d.messages = m /\ d.final = 0 /\ d.links = {} /\ d.status = "pending"
<1> DEFINE L == SUBSET (TraceMemories \X Nat)
           rows == [status : {"none", "pending", "completed", "incomplete"}, messages : Seq(Nat),
                    final : Nat, links : L]
<1>1. {} \in L /\ <<>> \in Seq(Nat)
  OBVIOUS
<1> HIDE DEF L
<1>2. NoTrace \in rows
  BY <1>1 DEF NoTrace
<1>3. NoTrace.final = 0 /\ NoTrace.links = {}
  BY DEF NoTrace
<1>4. d \in rows
  BY <1>2
<1>5. d.messages = m /\ d.final = 0 /\ d.links = {} /\ d.status = "pending"
  BY <1>2, <1>3
<1> QED BY <1>4, <1>5 DEF TraceRows, L

(* A message goes to its place, once.                                       *)
LEMMA StartRowOK ==
  ASSUME NEW tk, NEW own, NEW t \in Turns, tk \in Talks, NEW r, RowOK(t, r, tk, own),
         NEW k \in Nat, 1 <= k, k <= tk[t].messages, k - 1 <= Len(r.messages)
  PROVE  /\ RowOK(t, StartRow(r, k), tk, own) /\ Follows(r, StartRow(r, k))
         /\ k <= Len(StartRow(r, k).messages)
<1>1. r \in TraceRows /\ tk[t].messages \in Nat
  BY DEF RowOK, Talks
<1>2. CASE r.status = "none"
  <2> DEFINE d == [NoTrace EXCEPT !.status = "pending", !.messages = <<k>>]
  <2>1. StartRow(r, k) = d
    BY <1>2 DEF StartRow
  <2>2. Len(r.messages) = 0 /\ k = 1
    BY <1>2 DEF RowOK
  <2>3. <<k>> \in Seq(Nat) /\ Len(<<k>>) = 1 /\ <<k>>[1] = 1
    BY <2>2
  <2>5. d \in TraceRows /\ d.messages = <<k>> /\ d.final = 0 /\ d.links = {} /\ d.status = "pending"
    <3> DEFINE m == <<k>>
    <3>1. m \in Seq(Nat) /\ d = [NoTrace EXCEPT !.status = "pending", !.messages = m]
      BY <2>3
    <3> HIDE DEF m, d
    <3>2. d \in TraceRows /\ d.messages = m /\ d.final = 0 /\ d.links = {} /\ d.status = "pending"
      BY <3>1, OpenedRow
    <3> QED BY <3>2 DEF m
  <2> HIDE DEF d
  <2>6. Len(d.messages) = 1 /\ \A i \in 1..1 : d.messages[i] = i
    BY <2>3, <2>5
  <2>7. RowOK(t, d, tk, own)
    BY <1>1, <2>2, <2>5, <2>6 DEF RowOK
  <2>8. Follows(r, d)
    BY <1>2, <2>2, <2>6 DEF Follows
  <2> QED BY <2>1, <2>2, <2>6, <2>7, <2>8
<1>3. CASE r.status # "none"
  <2> DEFINE ms == AppendTurnMessage(r.messages, k)
             d == [r EXCEPT !.messages = ms]
  <2>1. StartRow(r, k) = d
    BY <1>3 DEF StartRow
  <2>2. /\ r.messages \in Seq(Nat) /\ Len(r.messages) \in Nat /\ Len(r.messages) <= tk[t].messages
        /\ \A i \in 1..Len(r.messages) : r.messages[i] = i
    BY <1>1 DEF RowOK, TraceRows
  <2>3. /\ ms \in Seq(Nat) /\ Len(ms) \in Nat /\ Len(r.messages) <= Len(ms) /\ k <= Len(ms)
        /\ Len(ms) <= tk[t].messages /\ \A i \in 1..Len(ms) : ms[i] = i
    <3>1. CASE k \in Stored(r.messages)
      <4>1. ms = r.messages
        BY <3>1 DEF AppendTurnMessage
      <4>2. PICK i \in 1..Len(r.messages) : k = r.messages[i]
        BY <2>2, <3>1 DEF Stored
      <4>3. k <= Len(r.messages)
        BY <2>2, <4>2
      <4> QED BY <2>2, <4>1, <4>3
    <3>2. CASE k \notin Stored(r.messages)
      <4>1. ms = Append(r.messages, k)
        BY <3>2 DEF AppendTurnMessage
      <4>2. k \notin 1..Len(r.messages)
        BY <2>2, <3>2 DEF Stored
      <4>3. k = Len(r.messages) + 1
        BY <2>2, <4>2
      <4>4. /\ Append(r.messages, k) \in Seq(Nat) /\ Len(Append(r.messages, k)) = Len(r.messages) + 1
            /\ Append(r.messages, k)[Len(r.messages) + 1] = k
            /\ \A i \in 1..Len(r.messages) : Append(r.messages, k)[i] = r.messages[i]
        BY <2>2
      <4>5. Len(ms) = k /\ ms \in Seq(Nat) /\ \A i \in 1..Len(ms) : ms[i] = i
        BY <2>2, <4>1, <4>3, <4>4
      <4> QED BY <2>2, <4>3, <4>5
    <3> QED BY <3>1, <3>2
  <2> HIDE DEF ms
  <2>4. d \in TraceRows /\ d.messages = ms /\ d.final = r.final /\ d.links = r.links /\ d.status = r.status
    BY <1>1, <2>3 DEF TraceRows
  <2> HIDE DEF d
  <2>5. RowOK(t, d, tk, own)
    BY <1>3, <2>3, <2>4 DEF RowOK
  <2>6. Follows(r, d)
    BY <2>3, <2>4 DEF Follows
  <2> QED BY <2>1, <2>3, <2>4, <2>5, <2>6
<1> QED BY <1>2, <1>3

(* What the invariant says of the rows.                                     *)
LEMMA TraceParts ==
  TraceInv =>
    /\ talk \in Talks /\ revision \in Revisions /\ trail \in Trails /\ traces \in [Turns -> TraceRows]
    /\ trail.own \in Owns /\ trail.turn \in Turns /\ trail.sent \in [Turns -> Nat] /\ trail.ended \in BOOLEAN
    /\ TalkOK(talk, revision, trail.own, trail.turn)
    /\ \A t \in Turns : RowOK(t, traces[t], talk, trail.own) /\ trail.sent[t] <= Len(traces[t].messages)
    /\ \A c \in late : CallOK(c, talk, revision, trail.own) /\ Ready(c, traces)
    /\ \A h \in CaptureHooks : QueueOK(capture[h], talk, revision, trail.own, traces)
BY DEF TraceInv, TraceTypes, Trails

(* What every executed call does to the rows.                               *)
Executed(c) ==
  /\ traces' \in [Turns -> TraceRows]
  /\ \A t \in Turns : RowOK(t, traces'[t], talk, trail.own) /\ Follows(traces[t], traces'[t])
  /\ c.op = "start" => c.arg <= Len(traces'[c.turn].messages)

(* A message is stored, after the sweep of abandoned traces.                *)
LEMMA StartOK ==
  ASSUME TraceInv, NEW c, CallOK(c, talk, revision, trail.own), Ready(c, traces),
         c.op = "start", traces' = CaptureStart(c.turn, c.arg)
  PROVE  Executed(c)
<1> DEFINE u == c.turn
           k == c.arg
           row(t) == IF trail.ended THEN Swept(traces[t]) ELSE traces[t]
<1>1. u \in Turns /\ k \in Nat /\ 1 <= k /\ k <= talk[u].messages /\ k - 1 <= Len(traces[u].messages)
  BY DEF CallOK, TraceCalls, Ready
<1>2. ASSUME NEW t \in Turns
      PROVE  /\ RowOK(t, row(t), talk, trail.own) /\ Follows(traces[t], row(t))
             /\ row(t).messages = traces[t].messages
  <2>1. RowOK(t, traces[t], talk, trail.own) /\ traces[t] \in TraceRows
    BY TraceParts
  <2>2. CASE trail.ended
    BY <2>1, <2>2, SweptOK
  <2>3. CASE ~trail.ended
    BY <2>1, <2>3, RowIs DEF Follows
  <2> QED BY <2>2, <2>3
<1>3. /\ traces' = [t \in Turns |-> traces'[t]]
      /\ traces'[u] = StartRow(row(u), k) /\ \A t \in Turns : t # u => traces'[t] = row(t)
  <2>1. SweepAbandoned = [t \in Turns |-> row(t)]
    BY DEF SweepAbandoned
  <2>2. traces' = [SweepAbandoned EXCEPT ![u] = StartRow(SweepAbandoned[u], k)]
    BY DEF CaptureStart
  <2> HIDE DEF row, u, k
  <2>3. DOMAIN SweepAbandoned = Turns /\ \A t \in Turns : SweepAbandoned[t] = row(t)
    BY <2>1
  <2> QED BY <1>1, <2>2, <2>3
<1> HIDE DEF row, u, k
<1>4. /\ RowOK(u, traces'[u], talk, trail.own) /\ Follows(row(u), traces'[u])
      /\ k <= Len(traces'[u].messages)
  <2>1. RowOK(u, row(u), talk, trail.own) /\ k - 1 <= Len(row(u).messages) /\ talk \in Talks
    BY <1>1, <1>2, TraceParts
  <2>2. /\ RowOK(u, StartRow(row(u), k), talk, trail.own) /\ Follows(row(u), StartRow(row(u), k))
        /\ k <= Len(StartRow(row(u), k).messages)
    BY <1>1, <2>1, StartRowOK
  <2> QED BY <1>3, <2>2
<1>5. Follows(traces[u], traces'[u])
  <2>1. traces[u] \in TraceRows /\ row(u) \in TraceRows /\ traces'[u] \in TraceRows
    BY <1>1, <1>2, <1>4, TraceParts DEF RowOK
  <2> QED BY <1>1, <1>2, <1>4, <2>1, RowIs DEF Follows
<1>6. ASSUME NEW t \in Turns PROVE RowOK(t, traces'[t], talk, trail.own) /\ Follows(traces[t], traces'[t])
  BY <1>2, <1>3, <1>4, <1>5
<1>7. traces' \in [Turns -> TraceRows]
  <2>1. \A t \in Turns : traces'[t] \in TraceRows
    BY <1>6 DEF RowOK
  <2> QED BY <1>3, <2>1
<1> QED BY <1>4, <1>6, <1>7 DEF Executed, u, k

(* One row changes.                                                         *)
LEMMA OneRow ==
  ASSUME TraceInv, NEW u \in Turns, NEW r, traces' = [traces EXCEPT ![u] = r],
         RowOK(u, r, talk, trail.own), Follows(traces[u], r)
  PROVE  /\ traces' \in [Turns -> TraceRows]
         /\ \A t \in Turns : RowOK(t, traces'[t], talk, trail.own) /\ Follows(traces[t], traces'[t])
<1>1. r \in TraceRows /\ traces \in [Turns -> TraceRows]
  BY TraceParts DEF RowOK
<1>2. traces' \in [Turns -> TraceRows] /\ traces'[u] = r /\ \A t \in Turns : t # u => traces'[t] = traces[t]
  BY <1>1
<1>3. \A t \in Turns : RowOK(t, traces[t], talk, trail.own) /\ Follows(traces[t], traces[t])
  BY <1>1, TraceParts, RowIs DEF Follows
<1> QED BY <1>2, <1>3

(* No row changes.                                                          *)
LEMMA SameRows ==
  ASSUME TraceInv, traces' = traces
  PROVE  /\ traces' \in [Turns -> TraceRows]
         /\ \A t \in Turns : RowOK(t, traces'[t], talk, trail.own) /\ Follows(traces[t], traces'[t])
<1>1. traces \in [Turns -> TraceRows]
  BY TraceParts
<1> QED BY <1>1, TraceParts, RowIs DEF Follows

(* A memory is linked at its present revision.                              *)
LEMMA LinkOK ==
  ASSUME TraceInv, NEW c, CallOK(c, talk, revision, trail.own), c.op = "link",
         traces' = CaptureLink(c.turn, c.memory)
  PROVE  Executed(c)
<1> DEFINE u == c.turn
           e == c.memory
           l == <<e, revision[e]>>
           r == [traces[u] EXCEPT !.links = @ \cup {l}]
<1>1. u \in Turns /\ e \in TraceMemories /\ Owned(u, e, revision, trail.own)
  BY DEF CallOK, TraceCalls
<1>2. CASE traces[u].status = "none" \/ revision[e] = 0
  <2>1. traces' = traces
    BY <1>2 DEF CaptureLink
  <2> QED BY <2>1, SameRows DEF Executed
<1>3. CASE ~(traces[u].status = "none" \/ revision[e] = 0)
  <2>1. traces' = [traces EXCEPT ![u] = r]
    BY <1>3 DEF CaptureLink
  <2>2. l \in TraceMemories \X Nat /\ l[1] = e /\ l[2] = revision[e]
    BY <1>1, TraceParts DEF Revisions
  <2> HIDE DEF l
  <2>3. traces[u] \in TraceRows /\ RowOK(u, traces[u], talk, trail.own)
    BY <1>1, TraceParts
  <2>4. /\ r \in TraceRows /\ r.messages = traces[u].messages /\ r.final = traces[u].final
        /\ r.status = traces[u].status /\ r.links = traces[u].links \cup {l}
    BY <2>2, <2>3 DEF TraceRows
  <2> HIDE DEF r
  <2>5. \E w \in trail.own : w[1] = u /\ w[2] = l[1] /\ w[3] <= l[2]
    BY <1>1, <2>2 DEF Owned
  <2>6. RowOK(u, r, talk, trail.own)
    BY <2>3, <2>4, <2>5 DEF RowOK
  <2>7. Follows(traces[u], r)
    BY <2>3, <2>4, RowIs DEF Follows
  <2> QED BY <1>1, <2>1, <2>6, <2>7, OneRow DEF Executed
<1> QED BY <1>2, <1>3

(* A pending trace gets the final text of its turn.                         *)
LEMMA CompleteOK ==
  ASSUME TraceInv, NEW c, CallOK(c, talk, revision, trail.own), c.op = "complete",
         traces' = CaptureComplete(c.turn, c.arg)
  PROVE  Executed(c)
<1> DEFINE u == c.turn
           r == [traces[u] EXCEPT !.status = "completed", !.final = u]
<1>1. u \in Turns /\ c.arg = u /\ u \in Nat
  BY TraceConstants DEF CallOK, TraceCalls, Turns
<1>2. CASE ~Completable(traces[u])
  <2>1. traces' = traces
    BY <1>2 DEF CaptureComplete
  <2> QED BY <2>1, SameRows DEF Executed
<1>3. CASE Completable(traces[u])
  <2>1. traces' = [traces EXCEPT ![u] = r]
    BY <1>1, <1>3 DEF CaptureComplete
  <2>3. traces[u] \in TraceRows /\ RowOK(u, traces[u], talk, trail.own)
    BY <1>1, TraceParts
  <2> HIDE DEF u
  <2>4. /\ r \in TraceRows /\ r.messages = traces[u].messages /\ r.final = u
        /\ r.status = "completed" /\ r.links = traces[u].links
    BY <1>1, <2>3 DEF TraceRows
  <2> HIDE DEF r
  <2>5. traces[u].status = "pending"
    BY <1>3 DEF Completable
  <2>6. RowOK(u, r, talk, trail.own)
    BY <2>3, <2>4, <2>5 DEF RowOK
  <2>7. Follows(traces[u], r)
    BY <2>3, <2>4, <2>5, RowIs DEF Follows
  <2> QED BY <1>1, <2>1, <2>6, <2>7, OneRow DEF Executed
<1> QED BY <1>2, <1>3

(* Any call.                                                                *)
LEMMA ExecuteOK ==
  ASSUME TraceInv, NEW c, CallOK(c, talk, revision, trail.own), Ready(c, traces), Execute(c)
  PROVE  Executed(c)
<1>1. c.op \in {"start", "link", "complete"}
  BY DEF CallOK, TraceCalls
<1>2. CASE c.op = "start"
  <2>1. traces' = CaptureStart(c.turn, c.arg)
    BY <1>2 DEF Execute
  <2> QED BY <1>2, <2>1, StartOK
<1>3. CASE c.op = "link"
  <2>1. traces' = CaptureLink(c.turn, c.memory)
    BY <1>3 DEF Execute
  <2> QED BY <1>3, <2>1, LinkOK
<1>4. CASE c.op = "complete"
  <2>1. traces' = CaptureComplete(c.turn, c.arg)
    BY <1>4 DEF Execute
  <2> QED BY <1>4, <2>1, CompleteOK
<1> QED BY <1>1, <1>2, <1>3, <1>4

-----------------------------------------------------------------------------
(* The calls of a hook                                                      *)

(* A function that is the calls up to each turn, to turn n.                 *)
SumsUp(f, n) == f = [t \in 0..n |-> IF t = 0 THEN <<>> ELSE f[t - 1] \o TurnCalls(t)]

(* There is one, for every turn.                                            *)
LEMMA SumsExist == ASSUME NEW n \in Nat PROVE \E f : SumsUp(f, n)
<1> DEFINE S == {k \in Nat : ~\E f : SumsUp(f, k)}
<1> SUFFICES ASSUME S # {} PROVE FALSE
  OBVIOUS
<1>1. PICK k \in S : \A j \in S : k <= j
  <2>1. S \in SUBSET Nat
    OBVIOUS
  <2> HIDE DEF S
  <2> QED BY <2>1, LeastNatural
<1>2. k \in Nat /\ ~\E f : SumsUp(f, k)
  BY <1>1
<1>3. k # 0
  <2> DEFINE f == [t \in 0..0 |-> <<>>]
  <2>1. f = [t \in 0..0 |-> IF t = 0 THEN <<>> ELSE f[t - 1] \o TurnCalls(t)]
    OBVIOUS
  <2>2. SumsUp(f, 0)
    BY <2>1 DEF SumsUp
  <2> HIDE DEF f
  <2> QED BY <1>2, <2>2
<1>4. k - 1 \in Nat /\ k - 1 \notin S
  BY <1>1, <1>2, <1>3
<1>5. PICK f : SumsUp(f, k - 1)
  BY <1>4
<1>6. \A t \in 0..(k - 1) : f[t] = IF t = 0 THEN <<>> ELSE f[t - 1] \o TurnCalls(t)
  BY <1>5 DEF SumsUp
<1> DEFINE g == [t \in 0..k |-> IF t = k THEN f[k - 1] \o TurnCalls(k) ELSE f[t]]
<1>7. \A t \in 0..k : g[t] = IF t = 0 THEN <<>> ELSE g[t - 1] \o TurnCalls(t)
  <2> SUFFICES ASSUME NEW t \in 0..k PROVE g[t] = IF t = 0 THEN <<>> ELSE g[t - 1] \o TurnCalls(t)
    OBVIOUS
  <2>1. CASE t = k
    <3>1. t # 0 /\ t - 1 \in 0..k /\ t - 1 # k /\ g[t - 1] = f[k - 1]
      BY <1>2, <1>3, <2>1
    <3>2. g[t] = f[k - 1] \o TurnCalls(k)
      BY <2>1
    <3> QED BY <2>1, <3>1, <3>2
  <2>2. CASE t # k
    <3>1. t \in 0..(k - 1) /\ g[t] = f[t]
      BY <1>2, <2>2
    <3>2. t # 0 => t - 1 \in 0..k /\ t - 1 # k /\ g[t - 1] = f[t - 1]
      BY <1>2, <3>1
    <3> HIDE DEF g
    <3> QED BY <1>6, <3>1, <3>2
  <2> QED BY <2>1, <2>2
<1>8. g = [t \in 0..k |-> IF t = 0 THEN <<>> ELSE g[t - 1] \o TurnCalls(t)]
  <2>1. g = [t \in 0..k |-> g[t]]
    OBVIOUS
  <2> HIDE DEF g
  <2> QED BY <1>7, <2>1
<1>9. SumsUp(g, k)
  BY <1>8 DEF SumsUp
<1> HIDE DEF g
<1> QED BY <1>2, <1>9

(* The calls up to a turn, from the calls up to the one before.             *)
LEMMA UpToIs ==
  \A t \in 0..MaxTraceTurns : CallsUpTo[t] = IF t = 0 THEN <<>> ELSE CallsUpTo[t - 1] \o TurnCalls(t)
<1>1. \E f : SumsUp(f, MaxTraceTurns)
  BY SumsExist, TraceConstants
<1>2. CallsUpTo = CHOOSE f : f = [t \in 0..MaxTraceTurns |-> IF t = 0 THEN <<>> ELSE f[t - 1] \o TurnCalls(t)]
  BY Zenon DEF CallsUpTo
<1>3. CallsUpTo = CHOOSE f : SumsUp(f, MaxTraceTurns)
  BY <1>2 DEF SumsUp
<1>4. SumsUp(CallsUpTo, MaxTraceTurns)
  BY <1>1, <1>3
<1> QED BY <1>4 DEF SumsUp

(* Calls that can be sent in this order.                                    *)
Sendable(s) ==
  /\ s \in Seq(TraceCalls)
  /\ \A i \in 1..Len(s) : /\ CallOK(s[i], talk, revision, trail.own)
                          /\ s[i].op = "start" => s[i].arg = 1 \/ Led(s, i)

(* One after the other.                                                     *)
LEMMA SendableJoin == ASSUME NEW s, NEW u, Sendable(s), Sendable(u) PROVE Sendable(s \o u)
<1> DEFINE w == s \o u
<1>1. s \in Seq(TraceCalls) /\ u \in Seq(TraceCalls) /\ Len(s) \in Nat /\ Len(u) \in Nat
  BY DEF Sendable
<1>2. /\ w \in Seq(TraceCalls) /\ Len(w) = Len(s) + Len(u)
      /\ \A i \in 1..Len(s) : w[i] = s[i]
      /\ \A i \in 1..Len(u) : w[Len(s) + i] = u[i]
  BY <1>1
<1> HIDE DEF w
<1>3. ASSUME NEW i \in 1..Len(s), Led(s, i) PROVE Led(w, i)
  <2>1. PICK j \in 1..(i - 1) : s[j].op = "start" /\ s[j].turn = s[i].turn /\ s[j].arg = s[i].arg - 1
    BY <1>3 DEF Led
  <2>2. j \in 1..Len(s) /\ w[j] = s[j] /\ w[i] = s[i]
    BY <1>1, <1>2
  <2> QED BY <2>1, <2>2 DEF Led
<1>4. ASSUME NEW i \in 1..Len(u), Led(u, i) PROVE Led(w, Len(s) + i)
  <2>1. PICK j \in 1..(i - 1) : u[j].op = "start" /\ u[j].turn = u[i].turn /\ u[j].arg = u[i].arg - 1
    BY <1>4 DEF Led
  <2>2. /\ j \in 1..Len(u) /\ w[Len(s) + j] = u[j] /\ w[Len(s) + i] = u[i]
        /\ Len(s) + j \in 1..(Len(s) + i - 1)
    BY <1>1, <1>2
  <2> QED BY <2>1, <2>2 DEF Led
<1>5. ASSUME NEW i \in 1..Len(w)
      PROVE  /\ CallOK(w[i], talk, revision, trail.own)
             /\ w[i].op = "start" => w[i].arg = 1 \/ Led(w, i)
  <2>1. CASE i <= Len(s)
    <3>1. i \in 1..Len(s) /\ w[i] = s[i]
      BY <1>1, <1>2, <2>1
    <3> QED BY <1>3, <3>1 DEF Sendable
  <2>2. CASE ~(i <= Len(s))
    <3> DEFINE j == i - Len(s)
    <3>1. j \in 1..Len(u) /\ Len(s) + j = i
      BY <1>1, <1>2, <2>2
    <3> HIDE DEF j
    <3>2. w[i] = u[j]
      BY <1>2, <3>1
    <3>3. Led(u, j) => Led(w, i)
      BY <1>4, <3>1
    <3> QED BY <3>1, <3>2, <3>3 DEF Sendable
  <2> QED BY <2>1, <2>2
<1> QED BY <1>2, <1>5 DEF Sendable, w

(* No calls.                                                                *)
LEMMA SendableNone == Sendable(<<>>)
<1>1. <<>> \in Seq(TraceCalls) /\ Len(<<>>) = 0
  OBVIOUS
<1> QED BY <1>1 DEF Sendable

(* A call in its fields.                                                    *)
LEMMA CallIs ==
  ASSUME NEW op \in {"start", "link", "complete"}, NEW t \in Turns, NEW k \in Nat,
         NEW e \in TraceMemories \cup {AnyMemory}
  PROVE  /\ TraceCall(op, t, k, e) \in TraceCalls /\ TraceCall(op, t, k, e).op = op
         /\ TraceCall(op, t, k, e).turn = t /\ TraceCall(op, t, k, e).arg = k
         /\ TraceCall(op, t, k, e).memory = e
BY DEF TraceCall, TraceCalls

(* The messages of a turn, each led by the one before.                      *)
LEMMA StartsSendable ==
  ASSUME TraceInv, NEW t \in Turns
  PROVE  Sendable([i \in 1..talk[t].messages |-> TraceCall("start", t, MessageOrder(t)[i], AnyMemory)])
<1> DEFINE n == talk[t].messages
           s == [i \in 1..n |-> TraceCall("start", t, MessageOrder(t)[i], AnyMemory)]
<1>1. n \in Nat
  BY TraceParts DEF Talks
<1>2. \A i \in 1..n : MessageOrder(t)[i] = i
  BY DEF MessageOrder
<1>3. ASSUME NEW i \in 1..n
      PROVE  s[i] \in TraceCalls /\ s[i].op = "start" /\ s[i].turn = t /\ s[i].arg = i
  <2>1. s[i] = TraceCall("start", t, i, AnyMemory)
    BY <1>2
  <2>2. i \in Nat /\ AnyMemory \in TraceMemories \cup {AnyMemory}
    BY <1>1
  <2> QED BY <2>1, <2>2, CallIs
<1>4. Len(s) = n /\ s \in Seq(TraceCalls)
  <2>1. s = [i \in 1..n |-> s[i]]
    OBVIOUS
  <2> HIDE DEF s
  <2>2. s \in [1..n -> TraceCalls]
    BY <1>3, <2>1
  <2>3. s \in Seq(TraceCalls)
    BY <1>1, <2>2, IsASeq
  <2>4. DOMAIN s = 1..n
    BY <2>2
  <2> QED BY <1>1, <2>3, <2>4, LenProperties
<1> HIDE DEF s
<1>5. ASSUME NEW i \in 1..n
      PROVE  /\ CallOK(s[i], talk, revision, trail.own) /\ (s[i].arg = 1 \/ Led(s, i))
  <2>1. 1 <= s[i].arg /\ s[i].arg <= talk[s[i].turn].messages
    BY <1>1, <1>3 DEF n
  <2>2. CallOK(s[i], talk, revision, trail.own)
    BY <1>3, <2>1 DEF CallOK
  <2>3. CASE i # 1
    <3>1. i - 1 \in 1..n /\ i - 1 \in 1..(i - 1)
      BY <1>1, <2>3
    <3>2. Led(s, i)
      BY <1>3, <3>1 DEF Led
    <3> QED BY <2>2, <3>2
  <2> QED BY <1>3, <2>2, <2>3
<1>6. Sendable(s)
  BY <1>4, <1>5 DEF Sendable
<1> QED BY <1>6 DEF s, n

(* The memories the turn wrote.                                             *)
LEMMA LinksSendable ==
  ASSUME TraceInv, NEW t \in Turns
  PROVE  Sendable([i \in 1..Len(talk[t].writes) |-> TraceCall("link", t, 0, talk[t].writes[i])])
<1> DEFINE n == Len(talk[t].writes)
           s == [i \in 1..n |-> TraceCall("link", t, 0, talk[t].writes[i])]
<1>1. n \in Nat /\ \A i \in 1..n : talk[t].writes[i] \in TraceMemories
  <2>1. talk[t].writes \in Seq(TraceMemories)
    BY TraceParts DEF Talks
  <2> QED BY <2>1
<1>2. \A i \in 1..n : Owned(t, talk[t].writes[i], revision, trail.own)
  BY TraceParts DEF TalkOK
<1>3. ASSUME NEW i \in 1..n
      PROVE  /\ s[i] \in TraceCalls /\ s[i].op = "link" /\ s[i].turn = t
             /\ s[i].memory = talk[t].writes[i]
  <2>1. s[i] = TraceCall("link", t, 0, talk[t].writes[i])
    OBVIOUS
  <2>2. talk[t].writes[i] \in TraceMemories \cup {AnyMemory} /\ 0 \in Nat
    BY <1>1
  <2> QED BY <2>1, <2>2, CallIs
<1>4. Len(s) = n /\ s \in Seq(TraceCalls)
  <2>1. s = [i \in 1..n |-> s[i]]
    OBVIOUS
  <2> HIDE DEF s, n
  <2>2. s \in [1..n -> TraceCalls]
    BY <1>3, <2>1
  <2>3. s \in Seq(TraceCalls)
    BY <1>1, <2>2, IsASeq
  <2>4. DOMAIN s = 1..n
    BY <2>2
  <2> QED BY <1>1, <2>3, <2>4, LenProperties
<1> HIDE DEF s
<1>5. ASSUME NEW i \in 1..n
      PROVE  CallOK(s[i], talk, revision, trail.own) /\ s[i].op # "start"
  BY <1>1, <1>2, <1>3 DEF CallOK
<1>6. Sendable(s)
  BY <1>4, <1>5 DEF Sendable
<1> QED BY <1>6 DEF s, n

(* The calls of a turn.                                                     *)
LEMMA TurnSendable == ASSUME TraceInv, NEW t \in Turns PROVE Sendable(TurnCalls(t))
<1> DEFINE a == [i \in 1..talk[t].messages |-> TraceCall("start", t, MessageOrder(t)[i], AnyMemory)]
           b == [i \in 1..Len(talk[t].writes) |-> TraceCall("link", t, 0, talk[t].writes[i])]
           c == TraceCall("complete", t, talk[t].final, AnyMemory)
           d == IF talk[t].final = 0 THEN <<>> ELSE <<c>>
<1>1. TurnCalls(t) = (a \o b) \o d
  BY DEF TurnCalls
<1>2. Sendable(a) /\ Sendable(b)
  BY StartsSendable, LinksSendable
<1>3. Sendable(d)
  <2>1. CASE talk[t].final = 0
    BY <2>1, SendableNone
  <2>2. CASE talk[t].final # 0
    <3>1. talk[t].final = t /\ talk[t].final \in Nat
      BY <2>2, TraceParts DEF TalkOK, Talks
    <3>2. c \in TraceCalls /\ c.op = "complete" /\ c.turn = t /\ c.arg = t
      <4>1. AnyMemory \in TraceMemories \cup {AnyMemory}
        OBVIOUS
      <4> QED BY <3>1, <4>1, CallIs
    <3> HIDE DEF c
    <3>3. CallOK(c, talk, revision, trail.own) /\ c.op # "start"
      BY <3>2 DEF CallOK
    <3>4. <<c>> \in Seq(TraceCalls) /\ Len(<<c>>) = 1 /\ <<c>>[1] = c
      BY <3>2
    <3>5. Sendable(<<c>>)
      BY <3>3, <3>4 DEF Sendable
    <3> QED BY <2>2, <3>5
  <2> QED BY <2>1, <2>2
<1> HIDE DEF a, b, d
<1>4. Sendable(a \o b)
  BY <1>2, SendableJoin
<1>5. Sendable((a \o b) \o d)
  BY <1>3, <1>4, SendableJoin
<1> QED BY <1>1, <1>5

(* All calls of a hook.                                                     *)
LEMMA AllSendable == ASSUME TraceInv PROVE Sendable(AllCalls)
<1> DEFINE S == {k \in 0..MaxTraceTurns : ~Sendable(CallsUpTo[k])}
<1>1. MaxTraceTurns \in Nat
  BY TraceConstants
<1>2. S = {}
  <2> SUFFICES ASSUME S # {} PROVE FALSE
    OBVIOUS
  <2>1. PICK k \in S : \A j \in S : k <= j
    <3>1. S \in SUBSET Nat
      BY <1>1
    <3> HIDE DEF S
    <3> QED BY <3>1, LeastNatural
  <2>2. k \in 0..MaxTraceTurns /\ ~Sendable(CallsUpTo[k])
    BY <2>1
  <2>3. CASE k = 0
    <3>1. CallsUpTo[k] = <<>>
      BY <2>2, <2>3, UpToIs
    <3> QED BY <2>2, <3>1, SendableNone
  <2>4. CASE k # 0
    <3>1. k - 1 \in 0..MaxTraceTurns /\ k \in Turns /\ ~(k <= k - 1)
      BY <1>1, <2>2, <2>4 DEF Turns
    <3>2. Sendable(CallsUpTo[k - 1])
      BY <2>1, <3>1
    <3>3. CallsUpTo[k] = CallsUpTo[k - 1] \o TurnCalls(k)
      BY <2>2, <2>4, UpToIs
    <3>4. Sendable(TurnCalls(k))
      BY <3>1, TurnSendable
    <3>5. Sendable(CallsUpTo[k - 1] \o TurnCalls(k))
      BY <3>2, <3>4, SendableJoin
    <3> QED BY <2>2, <3>3, <3>5
  <2> QED BY <2>3, <2>4
<1>3. trail.turn \in 0..MaxTraceTurns
  BY <1>1, TraceParts DEF Turns
<1> QED BY <1>2, <1>3 DEF AllCalls

(* ... make a queue in order.                                               *)
LEMMA FreshQueue == ASSUME TraceInv PROVE QueueOK(AllCalls, talk, revision, trail.own, traces)
<1> DEFINE s == AllCalls
<1>1. Sendable(s)
  BY AllSendable
<1> HIDE DEF s
<1>2. ASSUME NEW i \in 1..Len(s)
      PROVE  CallOK(s[i], talk, revision, trail.own) /\ (Ready(s[i], traces) \/ Led(s, i))
  <2>1. CallOK(s[i], talk, revision, trail.own) /\ (s[i].op = "start" => s[i].arg = 1 \/ Led(s, i))
    BY <1>1 DEF Sendable
  <2>2. s[i].turn \in Turns
    BY <2>1 DEF CallOK, TraceCalls
  <2>3. Len(traces[s[i].turn].messages) \in Nat
    BY <2>2, TraceParts, RowIs
  <2>4. s[i].arg = 1 => Ready(s[i], traces)
    BY <2>3 DEF Ready
  <2> QED BY <2>1, <2>4 DEF Ready
<1> QED BY <1>1, <1>2 DEF QueueOK, Sendable, s

-----------------------------------------------------------------------------
(* The steps of conversation, hooks and daemon                              *)

(* The conversation moves on, the rows stay.                                *)
LEMMA TalkMoves ==
  ASSUME TraceInv, UNCHANGED <<traces, capture, late>>, trail' \in Trails, trail'.sent = trail.sent,
         Wider(talk, revision, trail.own, talk', revision', trail'.own),
         TalkOK(talk', revision', trail'.own, trail'.turn)
  PROVE  TraceInv'
<1>1. RowsGrow(traces, traces)
  <2>1. traces \in [Turns -> TraceRows]
    BY TraceParts
  <2>2. \A t \in Turns : Follows(traces[t], traces[t])
    BY <2>1, RowIs DEF Follows
  <2> QED BY <2>1, <2>2 DEF RowsGrow
<1>2. \A t \in Turns : RowOK(t, traces[t], talk', trail'.own) /\ trail'.sent[t] <= Len(traces[t].messages)
  BY TraceParts, RowGrows
<1>3. \A c \in late : CallOK(c, talk', revision', trail'.own) /\ Ready(c, traces)
  BY TraceParts, CallGrows
<1>4. \A h \in CaptureHooks : QueueOK(capture[h], talk', revision', trail'.own, traces)
  BY <1>1, TraceParts, QueueGrows
<1>5. TraceTypes'
  BY DEF TraceTypes, Wider
<1>6. capture = [h \in CaptureHooks |-> capture[h]] /\ traces \in [Turns -> TraceRows]
  BY DEF TraceInv
<1> QED BY <1>2, <1>3, <1>4, <1>5, <1>6 DEF TraceInv

(* Rows as the daemon may change them.                                      *)
RowsMove ==
  /\ traces' \in [Turns -> TraceRows]
  /\ \A t \in Turns : RowOK(t, traces'[t], talk, trail.own) /\ Follows(traces[t], traces'[t])

(* Such rows have grown.                                                    *)
LEMMA MoveGrows ==
  ASSUME TraceInv, RowsMove
  PROVE  /\ RowsGrow(traces, traces')
         /\ \A t \in Turns : trail.sent[t] <= Len(traces'[t].messages)
<1>1. RowsGrow(traces, traces')
  BY TraceParts DEF RowsMove, RowsGrow
<1>2. ASSUME NEW t \in Turns PROVE trail.sent[t] <= Len(traces'[t].messages)
  <2>1. /\ trail.sent[t] \in Nat /\ Len(traces[t].messages) \in Nat /\ Len(traces'[t].messages) \in Nat
        /\ trail.sent[t] <= Len(traces[t].messages)
    BY TraceParts, RowIs DEF RowsMove
  <2>2. Len(traces[t].messages) <= Len(traces'[t].messages)
    BY DEF RowsMove, Follows
  <2> QED BY <2>1, <2>2
<1> QED BY <1>1, <1>2

(* Whatever is said stays wide enough.                                      *)
LEMMA SameWide == TraceInv => Wider(talk, revision, trail.own, talk, revision, trail.own)
<1> SUFFICES ASSUME TraceInv PROVE Wider(talk, revision, trail.own, talk, revision, trail.own)
  OBVIOUS
<1>1. talk \in Talks /\ revision \in Revisions /\ trail.own \in Owns
  BY TraceParts
<1>2. \A t \in Turns : talk[t].messages <= talk[t].messages
  BY <1>1 DEF Talks
<1>3. \A e \in TraceMemories : revision[e] <= revision[e]
  BY <1>1 DEF Revisions
<1> QED BY <1>1, <1>2, <1>3 DEF Wider

(* Hooks and daemon move on, nothing is said.                               *)
LEMMA RowsMoveOK ==
  ASSUME TraceInv, UNCHANGED <<talk, revision>>, RowsMove,
         trail' \in Trails, trail'.own = trail.own, trail'.turn = trail.turn,
         \A t \in Turns : trail'.sent[t] <= Len(traces'[t].messages),
         \A c \in late' : CallOK(c, talk, revision, trail.own) /\ Ready(c, traces'),
         capture' = [h \in CaptureHooks |-> capture'[h]],
         \A h \in CaptureHooks : QueueOK(capture'[h], talk, revision, trail.own, traces')
  PROVE  TraceInv'
<1>1. TraceTypes' /\ TalkOK(talk', revision', trail'.own, trail'.turn)
  BY TraceParts DEF TraceTypes
<1>2. \A t \in Turns : RowOK(t, traces'[t], talk', trail'.own)
  BY DEF RowsMove
<1> QED BY <1>1, <1>2 DEF TraceInv, RowsMove

(* What waits stays ready as the rows grow.                                 *)
LEMMA WaitingGrows ==
  ASSUME TraceInv, RowsMove
  PROVE  /\ \A c \in late : CallOK(c, talk, revision, trail.own) /\ Ready(c, traces')
         /\ \A h \in CaptureHooks : QueueOK(capture[h], talk, revision, trail.own, traces')
<1>1. RowsGrow(traces, traces')
  BY MoveGrows
<1>2. ASSUME NEW c \in late PROVE CallOK(c, talk, revision, trail.own) /\ Ready(c, traces')
  <2>1. CallOK(c, talk, revision, trail.own) /\ Ready(c, traces) /\ c \in TraceCalls
    BY TraceParts DEF CallOK
  <2> QED BY <1>1, <2>1, ReadyGrows
<1>3. ASSUME NEW h \in CaptureHooks PROVE QueueOK(capture[h], talk, revision, trail.own, traces')
  BY <1>1, SameWide, TraceParts, QueueGrows
<1> QED BY <1>2, <1>3

(* The user writes before the turn is over.                                 *)
LEMMA SendMidTurnOK == ASSUME TraceInv, SendMidTurn PROVE TraceInv'
<1> DEFINE u == trail.turn
           m == talk[u].messages + 1
           r == [talk[u] EXCEPT !.messages = m]
<1>1. talk' = [talk EXCEPT ![u] = r] /\ UNCHANGED <<revision, traces, capture, late, trail>>
  BY DEF SendMidTurn
<1>2. u \in Turns /\ talk \in Talks /\ revision \in Revisions /\ trail.own \in Owns /\ trail \in Trails
  BY TraceParts
<1>3. m \in Nat /\ talk[u].messages <= m /\ talk[u].messages \in Nat
  BY <1>2 DEF Talks
<1> HIDE DEF m
<1>4. r \in [messages : Nat, writes : Seq(TraceMemories), final : Nat] /\ r.messages = m
      /\ r.writes = talk[u].writes /\ r.final = talk[u].final
  BY <1>2, <1>3 DEF Talks
<1>5. u \in Nat /\ \A t \in Turns : t \in Nat
  BY <1>2, TraceConstants DEF Turns
<1> HIDE DEF u, r
<1>6. talk' \in Talks /\ talk'[u] = r /\ \A t \in Turns : t # u => talk'[t] = talk[t]
  BY <1>1, <1>2, <1>4 DEF Talks
<1>7. \A t \in Turns : talk[t].messages <= talk'[t].messages
  <2>1. \A t \in Turns : talk[t].messages \in Nat
    BY <1>2 DEF Talks
  <2> QED BY <1>3, <1>4, <1>6, <2>1
<1>8. Wider(talk, revision, trail.own, talk', revision', trail'.own)
  BY <1>1, <1>2, <1>6, <1>7, SameWide DEF Wider
<1>9. TalkOK(talk', revision, trail.own, u)
  <2>1. TalkOK(talk, revision, trail.own, u)
    BY TraceParts DEF u
  <2>2. ~(u > u)
    BY <1>5
  <2> QED BY <1>4, <1>6, <2>1, <2>2 DEF TalkOK
<1> QED BY <1>1, <1>2, <1>8, <1>9, TalkMoves DEF u

(* The turn is answered.                                                    *)
LEMMA FinishOK == ASSUME TraceInv, Finish PROVE TraceInv'
<1> DEFINE u == trail.turn
           r == [talk[u] EXCEPT !.final = u]
<1>1. talk' = [talk EXCEPT ![u] = r] /\ UNCHANGED <<revision, traces, capture, late, trail>>
  BY DEF Finish
<1>2. u \in Turns /\ talk \in Talks /\ revision \in Revisions /\ trail.own \in Owns /\ trail \in Trails
  BY TraceParts
<1>3. u \in Nat
  BY <1>2, TraceConstants DEF Turns
<1> HIDE DEF u
<1>4. r \in [messages : Nat, writes : Seq(TraceMemories), final : Nat] /\ r.messages = talk[u].messages
      /\ r.writes = talk[u].writes /\ r.final = u
  BY <1>2, <1>3 DEF Talks
<1> HIDE DEF r
<1>6. talk' \in Talks /\ talk'[u] = r /\ \A t \in Turns : t # u => talk'[t] = talk[t]
  BY <1>1, <1>2, <1>4 DEF Talks
<1>7. \A t \in Turns : talk'[t].messages = talk[t].messages /\ talk'[t].writes = talk[t].writes
  BY <1>4, <1>6
<1>8. Wider(talk, revision, trail.own, talk', revision', trail'.own)
  BY <1>1, <1>2, <1>6, <1>7, SameWide DEF Wider
<1>9. TalkOK(talk', revision, trail.own, u)
  <2>1. TalkOK(talk, revision, trail.own, u)
    BY TraceParts DEF u
  <2>2. \A t \in Turns : talk'[t].final \in {0, t}
    BY <1>4, <1>6, <2>1 DEF TalkOK
  <2> QED BY <1>7, <2>1, <2>2 DEF TalkOK
<1> QED BY <1>1, <1>2, <1>8, <1>9, TalkMoves DEF u

(* The user opens the next turn.                                            *)
LEMMA NextTurnOK == ASSUME TraceInv, NextTurn PROVE TraceInv'
<1> DEFINE n == trail.turn
           u == trail.turn + 1
           r == [talk[u] EXCEPT !.messages = 1]
<1>1. /\ talk' = [talk EXCEPT ![u] = r] /\ trail' = [trail EXCEPT !.turn = u] /\ n < MaxTraceTurns
      /\ UNCHANGED <<revision, traces, capture, late>>
  BY DEF NextTurn
<1>2. n \in Turns /\ talk \in Talks /\ revision \in Revisions /\ trail.own \in Owns /\ trail \in Trails
  BY TraceParts
<1>3. u \in Turns /\ u \in Nat /\ n \in Nat /\ u > n /\ \A t \in Turns : t \in Nat
  BY <1>1, <1>2, TraceConstants DEF Turns
<1>4. TalkOK(talk, revision, trail.own, n) /\ talk[u].messages = 0
  BY <1>3, TraceParts DEF TalkOK
<1>5. /\ trail' \in Trails /\ trail'.sent = trail.sent /\ trail'.own = trail.own /\ trail'.turn = u
  BY <1>1, <1>2, <1>3 DEF Trails
<1>6. \A t \in Turns : t > u => t > n
  BY <1>3
<1>7. u > u <=> FALSE
  BY <1>3
<1> HIDE DEF u, n
<1>8. r \in [messages : Nat, writes : Seq(TraceMemories), final : Nat] /\ r.messages = 1
      /\ r.writes = talk[u].writes /\ r.final = talk[u].final
  BY <1>2, <1>3 DEF Talks
<1> HIDE DEF r
<1>9. talk' \in Talks /\ talk'[u] = r /\ \A t \in Turns : t # u => talk'[t] = talk[t]
  BY <1>1, <1>2, <1>3, <1>8 DEF Talks
<1>10. \A t \in Turns : talk[t].messages <= talk'[t].messages
  <2>1. \A t \in Turns : talk[t].messages \in Nat
    BY <1>2 DEF Talks
  <2> QED BY <1>4, <1>8, <1>9, <2>1
<1>11. Wider(talk, revision, trail.own, talk', revision', trail'.own)
  BY <1>1, <1>2, <1>5, <1>9, <1>10, SameWide DEF Wider
<1>12. TalkOK(talk', revision', trail'.own, trail'.turn)
  BY <1>1, <1>4, <1>5, <1>6, <1>7, <1>8, <1>9 DEF TalkOK
<1> QED BY <1>1, <1>5, <1>11, <1>12, TalkMoves

(* The session is closed.                                                   *)
LEMMA EndSessionOK == ASSUME TraceInv, EndSession PROVE TraceInv'
<1>1. trail' = [trail EXCEPT !.ended = TRUE] /\ UNCHANGED <<talk, revision, traces, capture, late>>
  BY DEF EndSession
<1>2. /\ trail' \in Trails /\ trail'.sent = trail.sent /\ trail'.own = trail.own /\ trail'.turn = trail.turn
  BY <1>1, TraceParts DEF Trails
<1>3. /\ Wider(talk, revision, trail.own, talk', revision', trail'.own)
      /\ TalkOK(talk', revision', trail'.own, trail'.turn)
  BY <1>1, <1>2, SameWide, TraceParts
<1> QED BY <1>1, <1>2, <1>3, TalkMoves

(* The agent writes a memory in its turn.                                   *)
LEMMA WriteMemoryOK == ASSUME TraceInv, NEW e \in TraceMemories, WriteMemory(e) PROVE TraceInv'
<1> DEFINE u == trail.turn
           v == revision[e] + 1
           w == <<u, e, v>>
           ws == Append(talk[u].writes, e)
           r == [talk[u] EXCEPT !.writes = ws]
           own2 == trail.own \cup {w}
<1>1. /\ talk' = [talk EXCEPT ![u] = r] /\ revision' = [revision EXCEPT ![e] = v]
      /\ trail' = [trail EXCEPT !.own = own2] /\ UNCHANGED <<traces, capture, late>>
  BY DEF WriteMemory
<1>2. u \in Turns /\ talk \in Talks /\ revision \in Revisions /\ trail.own \in Owns /\ trail \in Trails
  BY TraceParts
<1>3. v \in Nat /\ revision[e] \in Nat /\ revision[e] <= v
  BY <1>2 DEF Revisions
<1> HIDE DEF v
<1>4. w \in Turns \X TraceMemories \X Nat /\ w[1] = u /\ w[2] = e /\ w[3] = v
  BY <1>2, <1>3
<1> HIDE DEF w, u
<1>5. own2 \in Owns /\ trail.own \subseteq own2 /\ w \in own2
  BY <1>2, <1>4 DEF Owns
<1> HIDE DEF own2
<1>6. trail' \in Trails /\ trail'.sent = trail.sent /\ trail'.own = own2 /\ trail'.turn = trail.turn
  BY <1>1, <1>2, <1>5 DEF Trails
<1>7. talk[u].writes \in Seq(TraceMemories)
  BY <1>2 DEF Talks
<1>8. /\ ws \in Seq(TraceMemories) /\ Len(ws) = Len(talk[u].writes) + 1 /\ Len(talk[u].writes) \in Nat
      /\ \A i \in 1..Len(talk[u].writes) : ws[i] = talk[u].writes[i]
      /\ ws[Len(talk[u].writes) + 1] = e
  BY <1>7
<1> HIDE DEF ws
<1>9. r \in [messages : Nat, writes : Seq(TraceMemories), final : Nat] /\ r.messages = talk[u].messages
      /\ r.writes = ws /\ r.final = talk[u].final
  BY <1>2, <1>8 DEF Talks
<1> HIDE DEF r
<1>10. talk' \in Talks /\ talk'[u] = r /\ \A t \in Turns : t # u => talk'[t] = talk[t]
  BY <1>1, <1>2, <1>9 DEF Talks
<1>11. /\ revision' \in Revisions /\ revision'[e] = v
       /\ \A x \in TraceMemories : revision[x] <= revision'[x]
  <2>1. \A x \in TraceMemories : revision[x] \in Nat
    BY <1>2 DEF Revisions
  <2> QED BY <1>1, <1>2, <1>3, <2>1 DEF Revisions
<1>12. \A t \in Turns : talk'[t].messages = talk[t].messages /\ talk'[t].final = talk[t].final
  BY <1>9, <1>10
<1>13. \A t \in Turns : talk[t].messages <= talk'[t].messages
  <2>1. \A t \in Turns : talk[t].messages \in Nat
    BY <1>2 DEF Talks
  <2> QED BY <1>12, <2>1
<1>14. Wider(talk, revision, trail.own, talk', revision', own2)
  BY <1>2, <1>5, <1>10, <1>11, <1>13 DEF Wider
<1>15. TalkOK(talk, revision, trail.own, trail.turn)
  BY TraceParts
<1>16. ASSUME NEW t \in Turns, NEW i \in 1..Len(talk[t].writes)
       PROVE  Owned(t, talk[t].writes[i], revision', own2)
  <2>1. Owned(t, talk[t].writes[i], revision, trail.own)
    BY <1>15 DEF TalkOK
  <2>2. talk[t].writes[i] \in TraceMemories
    <3>1. talk[t].writes \in Seq(TraceMemories)
      BY <1>2 DEF Talks
    <3> QED BY <3>1
  <2> QED BY <1>14, <2>1, <2>2, OwnedGrows
<1>17. Owned(u, e, revision', own2)
  <2>1. w[3] <= revision'[e]
    BY <1>3, <1>4, <1>11
  <2> QED BY <1>4, <1>5, <2>1 DEF Owned
<1>18. ASSUME NEW t \in Turns, NEW i \in 1..Len(talk'[t].writes)
       PROVE  Owned(t, talk'[t].writes[i], revision', own2)
  <2>1. CASE t # u
    BY <1>10, <1>16, <2>1
  <2>2. CASE t = u
    <3>1. i \in 1..Len(ws) /\ talk'[t].writes = ws
      BY <1>9, <1>10, <2>2
    <3>2. CASE i = Len(talk[u].writes) + 1
      BY <1>8, <1>17, <2>2, <3>1, <3>2
    <3>3. CASE i # Len(talk[u].writes) + 1
      <4>1. i \in 1..Len(talk[u].writes)
        BY <1>8, <3>1, <3>3
      <4> QED BY <1>8, <1>16, <2>2, <3>1, <4>1
    <3> QED BY <3>2, <3>3
  <2> QED BY <2>1, <2>2
<1>19. TalkOK(talk', revision', own2, trail.turn)
  BY <1>12, <1>15, <1>18 DEF TalkOK
<1> QED BY <1>1, <1>6, <1>14, <1>19, TalkMoves

(* No row moves.                                                            *)
LEMMA RowsStay == ASSUME TraceInv, traces' = traces PROVE RowsMove
BY SameRows DEF RowsMove

(* A hook reads the transcript.                                             *)
LEMMA RunHookOK == ASSUME TraceInv, NEW h \in CaptureHooks, RunHook(h) PROVE TraceInv'
<1> DEFINE k == trail.runs + 1
<1>1. /\ capture' = [capture EXCEPT ![h] = AllCalls] /\ trail' = [trail EXCEPT !.runs = k]
      /\ UNCHANGED <<talk, revision, traces, late>>
  BY DEF RunHook
<1>2. k \in Nat
  BY TraceParts DEF Trails
<1> HIDE DEF k
<1>3. trail' \in Trails /\ trail'.sent = trail.sent /\ trail'.own = trail.own /\ trail'.turn = trail.turn
  BY <1>1, <1>2, TraceParts DEF Trails
<1>4. RowsMove
  BY <1>1, RowsStay
<1>5. capture = [g \in CaptureHooks |-> capture[g]]
  BY DEF TraceInv
<1>6. /\ capture' = [g \in CaptureHooks |-> capture'[g]]
      /\ capture'[h] = AllCalls /\ \A g \in CaptureHooks : g # h => capture'[g] = capture[g]
  BY <1>1, <1>5
<1>7. \A g \in CaptureHooks : QueueOK(capture'[g], talk, revision, trail.own, traces')
  BY <1>1, <1>6, TraceParts, FreshQueue
<1>8. \A t \in Turns : trail'.sent[t] <= Len(traces'[t].messages)
  BY <1>1, <1>3, TraceParts
<1>9. \A c \in late' : CallOK(c, talk, revision, trail.own) /\ Ready(c, traces')
  BY <1>1, TraceParts
<1> QED BY <1>1, <1>3, <1>4, <1>6, <1>7, <1>8, <1>9, RowsMoveOK

(* A call is executed and answered.                                         *)
LEMMA CallToolOK == ASSUME TraceInv, NEW h \in CaptureHooks, CallTool(h) PROVE TraceInv' /\ RowsMove
<1> DEFINE c == Head(capture[h])
           u == c.turn
           k == IF c.op = "start" /\ c.arg > trail.sent[u] THEN c.arg ELSE trail.sent[u]
           sn == [trail.sent EXCEPT ![u] = k]
<1>1. /\ capture[h] # <<>> /\ Execute(c) /\ capture' = [capture EXCEPT ![h] = Tail(capture[h])]
      /\ trail' = [trail EXCEPT !.sent = sn] /\ UNCHANGED <<talk, revision, late>>
  BY DEF CallTool
<1>2. QueueOK(capture[h], talk, revision, trail.own, traces)
  BY TraceParts
<1>3. CallOK(c, talk, revision, trail.own) /\ Ready(c, traces)
  BY <1>1, <1>2, HeadReady
<1>4. Executed(c)
  BY <1>1, <1>3, ExecuteOK
<1>5. RowsMove /\ (c.op = "start" => c.arg <= Len(traces'[u].messages))
  BY <1>4 DEF Executed, RowsMove
<1>6. RowsGrow(traces, traces') /\ \A t \in Turns : trail.sent[t] <= Len(traces'[t].messages)
  BY <1>5, MoveGrows
<1>7. u \in Turns /\ c.arg \in Nat
  BY <1>3 DEF CallOK, TraceCalls
<1>8. trail.sent \in [Turns -> Nat] /\ trail \in Trails
  BY TraceParts
<1>9. k \in Nat /\ k <= Len(traces'[u].messages)
  BY <1>5, <1>6, <1>7, <1>8
<1>10. QueueOK(Tail(capture[h]), talk, revision, trail.own, traces')
  BY <1>1, <1>2, <1>5, <1>6, TailQueue
<1> HIDE DEF c, u, k
<1>11. sn \in [Turns -> Nat] /\ \A t \in Turns : sn[t] <= Len(traces'[t].messages)
  BY <1>6, <1>7, <1>8, <1>9
<1> HIDE DEF sn
<1>12. trail' \in Trails /\ trail'.sent = sn /\ trail'.own = trail.own /\ trail'.turn = trail.turn
  BY <1>1, <1>8, <1>11 DEF Trails
<1>13. capture = [g \in CaptureHooks |-> capture[g]]
  BY DEF TraceInv
<1>14. /\ capture' = [g \in CaptureHooks |-> capture'[g]]
       /\ capture'[h] = Tail(capture[h]) /\ \A g \in CaptureHooks : g # h => capture'[g] = capture[g]
  BY <1>1, <1>13
<1>15. /\ \A d \in late : CallOK(d, talk, revision, trail.own) /\ Ready(d, traces')
       /\ \A g \in CaptureHooks : QueueOK(capture[g], talk, revision, trail.own, traces')
  BY <1>5, WaitingGrows
<1>16. \A g \in CaptureHooks : QueueOK(capture'[g], talk, revision, trail.own, traces')
  BY <1>10, <1>14, <1>15
<1>17. \A t \in Turns : trail'.sent[t] <= Len(traces'[t].messages)
  BY <1>11, <1>12
<1>18. \A d \in late' : CallOK(d, talk, revision, trail.own) /\ Ready(d, traces')
  BY <1>1, <1>15
<1>19. TraceInv'
  BY <1>1, <1>5, <1>12, <1>14, <1>16, <1>17, <1>18, RowsMoveOK
<1> QED BY <1>5, <1>19

(* A call fails: lost, still to be executed, or executed unanswered.        *)
LEMMA CallFailsOK == ASSUME TraceInv, NEW h \in CaptureHooks, CallFails(h) PROVE TraceInv' /\ RowsMove
<1> DEFINE c == Head(capture[h])
           k == trail.faults + 1
<1>1. /\ capture[h] # <<>> /\ capture' = [capture EXCEPT ![h] = <<>>]
      /\ trail' = [trail EXCEPT !.faults = k] /\ UNCHANGED <<talk, revision>>
      /\ \/ late' = late /\ UNCHANGED traces
         \/ late' = late \cup {c} /\ UNCHANGED traces
         \/ late' = late /\ Execute(c)
  BY DEF CallFails
<1>2. CallOK(c, talk, revision, trail.own) /\ Ready(c, traces)
  BY <1>1, TraceParts, HeadReady
<1>3. k \in Nat
  BY TraceParts DEF Trails
<1> HIDE DEF c, k
<1>4. trail' \in Trails /\ trail'.sent = trail.sent /\ trail'.own = trail.own /\ trail'.turn = trail.turn
  BY <1>1, <1>3, TraceParts DEF Trails
<1>5. RowsMove
  <2>1. CASE UNCHANGED traces
    BY <2>1, RowsStay
  <2>2. CASE Execute(c)
    BY <1>2, <2>2, ExecuteOK DEF Executed, RowsMove
  <2> QED BY <1>1, <2>1, <2>2
<1>6. /\ \A d \in late : CallOK(d, talk, revision, trail.own) /\ Ready(d, traces')
      /\ \A g \in CaptureHooks : QueueOK(capture[g], talk, revision, trail.own, traces')
  BY <1>5, WaitingGrows
<1>7. \A d \in late' : CallOK(d, talk, revision, trail.own) /\ Ready(d, traces')
  <2>1. CASE late' = late
    BY <1>6, <2>1
  <2>2. CASE late' = late \cup {c} /\ UNCHANGED traces
    BY <1>2, <1>6, <2>2
  <2> QED BY <1>1, <2>1, <2>2
<1>8. capture = [g \in CaptureHooks |-> capture[g]]
  BY DEF TraceInv
<1>9. /\ capture' = [g \in CaptureHooks |-> capture'[g]]
      /\ capture'[h] = <<>> /\ \A g \in CaptureHooks : g # h => capture'[g] = capture[g]
  BY <1>1, <1>8
<1>10. QueueOK(<<>>, talk, revision, trail.own, traces')
  <2>1. <<>> \in Seq(TraceCalls) /\ Len(<<>>) = 0
    OBVIOUS
  <2> QED BY <2>1 DEF QueueOK
<1>11. \A g \in CaptureHooks : QueueOK(capture'[g], talk, revision, trail.own, traces')
  BY <1>6, <1>9, <1>10
<1>12. \A t \in Turns : trail'.sent[t] <= Len(traces'[t].messages)
  BY <1>4, <1>5, MoveGrows
<1>13. TraceInv'
  BY <1>1, <1>4, <1>5, <1>7, <1>9, <1>11, <1>12, RowsMoveOK
<1> QED BY <1>5, <1>13

(* Only rows and the calls given up change.                                 *)
LEMMA RowsOnlyOK ==
  ASSUME TraceInv, RowsMove, late' \subseteq late, UNCHANGED <<talk, revision, capture, trail>>
  PROVE  TraceInv'
<1>1. /\ \A d \in late : CallOK(d, talk, revision, trail.own) /\ Ready(d, traces')
      /\ \A g \in CaptureHooks : QueueOK(capture[g], talk, revision, trail.own, traces')
  BY WaitingGrows
<1>2. \A d \in late' : CallOK(d, talk, revision, trail.own) /\ Ready(d, traces')
  BY <1>1
<1>3. \A g \in CaptureHooks : QueueOK(capture'[g], talk, revision, trail.own, traces')
  BY <1>1
<1>4. \A t \in Turns : trail'.sent[t] <= Len(traces'[t].messages)
  BY MoveGrows
<1>5. capture' = [h \in CaptureHooks |-> capture'[h]]
  BY DEF TraceInv
<1>6. trail' \in Trails /\ trail'.own = trail.own /\ trail'.turn = trail.turn
  BY TraceParts
<1> QED BY <1>2, <1>3, <1>4, <1>5, <1>6, RowsMoveOK

(* The daemon gets to a call its hook gave up on.                           *)
LEMMA ExecuteLateOK == ASSUME TraceInv, ExecuteLate PROVE TraceInv' /\ RowsMove
<1>1. PICK c \in late : Execute(c) /\ late' = late \ {c}
  BY DEF ExecuteLate
<1>2. UNCHANGED <<talk, revision, capture, trail>>
  BY DEF ExecuteLate
<1>3. CallOK(c, talk, revision, trail.own) /\ Ready(c, traces)
  BY TraceParts
<1>4. RowsMove
  BY <1>1, <1>3, ExecuteOK DEF Executed, RowsMove
<1> QED BY <1>1, <1>2, <1>4, RowsOnlyOK

(* A reader closes what was abandoned.                                      *)
LEMMA ReadSweepOK == ASSUME TraceInv, NEW old, ReadSweep(old) PROVE TraceInv' /\ RowsMove
<1>1. /\ traces' = [t \in Turns |-> IF trail.ended \/ t \in old THEN Swept(traces[t]) ELSE traces[t]]
      /\ UNCHANGED <<talk, revision, capture, late, trail>>
  BY DEF ReadSweep
<1>2. ASSUME NEW t \in Turns
      PROVE  /\ RowOK(t, traces'[t], talk, trail.own) /\ Follows(traces[t], traces'[t])
             /\ traces'[t] \in TraceRows
  <2>1. RowOK(t, traces[t], talk, trail.own) /\ traces[t] \in TraceRows
    BY TraceParts
  <2>2. CASE trail.ended \/ t \in old
    <3>1. traces'[t] = Swept(traces[t])
      BY <1>1, <2>2
    <3>2. RowOK(t, Swept(traces[t]), talk, trail.own) /\ Follows(traces[t], Swept(traces[t]))
      BY <2>1, SweptOK
    <3>3. Swept(traces[t]) \in TraceRows
      BY <3>2 DEF RowOK
    <3> QED BY <3>1, <3>2, <3>3
  <2>3. CASE ~(trail.ended \/ t \in old)
    <3>1. traces'[t] = traces[t]
      BY <1>1, <2>3
    <3> QED BY <2>1, <3>1, RowIs DEF Follows
  <2> QED BY <2>2, <2>3
<1>3. traces' \in [Turns -> TraceRows]
  <2>1. traces' = [t \in Turns |-> traces'[t]]
    BY <1>1
  <2> QED BY <1>2, <2>1
<1>4. RowsMove
  BY <1>2, <1>3 DEF RowsMove
<1> QED BY <1>1, <1>4, RowsOnlyOK

-----------------------------------------------------------------------------
(* The traces of a session                                                  *)

(* A session starts with its first message said and nothing stored.         *)
LEMMA TraceStart == TraceInit => TraceInv
<1> SUFFICES ASSUME TraceInit PROVE TraceInv
  OBVIOUS
<1>1. 1 \in Turns /\ \A t \in Turns : t \in Nat
  BY TraceConstants DEF Turns
<1> DEFINE said == [messages : Nat, writes : Seq(TraceMemories), final : Nat]
<1>2. /\ Silent \in said /\ Silent.messages = 0 /\ Silent.writes = <<>> /\ Silent.final = 0
  BY DEF Silent
<1> DEFINE first == [Silent EXCEPT !.messages = 1]
<1>3. first \in said /\ first.writes = <<>> /\ first.final = 0
  BY <1>2
<1>4. \A t \in Turns : /\ talk[t] \in said /\ talk[t].writes = <<>> /\ talk[t].final = 0
                       /\ t > 1 => talk[t].messages = 0
  <2>1. talk = [t \in Turns |-> IF t = 1 THEN first ELSE Silent]
    BY DEF TraceInit
  <2> HIDE DEF first, said
  <2> SUFFICES ASSUME NEW t \in Turns
               PROVE  /\ talk[t] \in said /\ talk[t].writes = <<>> /\ talk[t].final = 0
                      /\ t > 1 => talk[t].messages = 0
    OBVIOUS
  <2>2. CASE t = 1
    <3>1. talk[t] = first /\ ~(t > 1)
      BY <2>1, <2>2
    <3> QED BY <1>3, <3>1
  <2>3. CASE t # 1
    <3>1. talk[t] = Silent
      BY <2>1, <2>3
    <3> QED BY <1>2, <3>1
  <2> QED BY <2>2, <2>3
<1> HIDE DEF first
<1>5. talk \in Talks
  <2>1. talk = [t \in Turns |-> talk[t]]
    BY DEF TraceInit
  <2> QED BY <1>4, <2>1 DEF Talks
<1>6. revision \in Revisions /\ late = {}
  BY DEF TraceInit, Revisions
<1>7. /\ trail \in Trails /\ trail.own = {} /\ trail.turn = 1
      /\ \A t \in Turns : trail.sent[t] = 0
  <2> DEFINE sn == [t \in Turns |-> 0]
             ow == {}
  <2>1. sn \in [Turns -> Nat] /\ ow \in Owns /\ \A t \in Turns : sn[t] = 0
    BY DEF Owns
  <2>2. trail = [turn |-> 1, ended |-> FALSE, runs |-> 0, faults |-> 0, own |-> ow, sent |-> sn]
    BY DEF TraceInit
  <2> HIDE DEF sn, ow
  <2>3. trail \in Trails /\ trail.own = ow /\ trail.turn = 1 /\ trail.sent = sn
    BY <1>1, <2>1, <2>2 DEF Trails
  <2> QED BY <2>1, <2>3 DEF ow
<1>8. TalkOK(talk, revision, trail.own, trail.turn)
  <2>1. Len(<<>>) = 0
    OBVIOUS
  <2>2. \A t \in Turns : 1..Len(talk[t].writes) = {}
    BY <1>4, <2>1
  <2> QED BY <1>4, <1>7, <2>2 DEF TalkOK
<1>9. NoTrace \in TraceRows /\ NoTrace.status = "none" /\ NoTrace.final = 0 /\ NoTrace.links = {}
      /\ Len(NoTrace.messages) = 0
  <2> DEFINE L == SUBSET (TraceMemories \X Nat)
             rows == [status : {"none", "pending", "completed", "incomplete"}, messages : Seq(Nat),
                      final : Nat, links : L]
  <2>1. {} \in L /\ <<>> \in Seq(Nat) /\ Len(<<>>) = 0
    OBVIOUS
  <2> HIDE DEF L
  <2>2. NoTrace \in rows
    BY <2>1 DEF NoTrace
  <2>3. NoTrace.status = "none" /\ NoTrace.final = 0 /\ NoTrace.links = {} /\ NoTrace.messages = <<>>
    BY DEF NoTrace
  <2> QED BY <2>1, <2>2, <2>3 DEF TraceRows, L
<1>10. traces = [t \in Turns |-> NoTrace]
  BY DEF TraceInit
<1> HIDE DEF said
<1>11. ASSUME NEW t \in Turns
       PROVE  RowOK(t, traces[t], talk, trail.own) /\ trail.sent[t] <= Len(traces[t].messages)
  <2>1. traces[t] = NoTrace
    BY <1>10
  <2>2. talk[t].messages \in Nat
    BY <1>5 DEF Talks
  <2>3. RowOK(t, NoTrace, talk, trail.own)
    BY <1>9, <2>2 DEF RowOK
  <2>4. trail.sent[t] <= Len(NoTrace.messages)
    BY <1>7, <1>9
  <2> QED BY <2>1, <2>3, <2>4
<1>12. traces \in [Turns -> TraceRows]
  BY <1>9, <1>10
<1>13. /\ capture = [h \in CaptureHooks |-> capture[h]]
       /\ \A h \in CaptureHooks : QueueOK(capture[h], talk, revision, trail.own, traces)
  <2>1. capture = [h \in CaptureHooks |-> <<>>]
    BY DEF TraceInit
  <2>2. <<>> \in Seq(TraceCalls) /\ Len(<<>>) = 0
    OBVIOUS
  <2>3. QueueOK(<<>>, talk, revision, trail.own, traces)
    BY <2>2 DEF QueueOK
  <2> QED BY <2>1, <2>3
<1>14. TraceTypes
  BY <1>5, <1>6, <1>7 DEF TraceTypes
<1> QED BY <1>6, <1>8, <1>11, <1>12, <1>13, <1>14 DEF TraceInv

(* Every step of the conversation, of a hook, of the daemon and of a reader *)
(* keeps the invariant, and lets every row only grow.                       *)
LEMMA TraceStep == ASSUME TraceInv, [TraceNext]_traceVars PROVE TraceInv' /\ RowsMove
<1>1. CASE SendMidTurn
  <2>1. traces' = traces
    BY <1>1 DEF SendMidTurn
  <2> QED BY <1>1, <2>1, SendMidTurnOK, RowsStay
<1>2. CASE Finish
  <2>1. traces' = traces
    BY <1>2 DEF Finish
  <2> QED BY <1>2, <2>1, FinishOK, RowsStay
<1>3. CASE NextTurn
  <2>1. traces' = traces
    BY <1>3 DEF NextTurn
  <2> QED BY <1>3, <2>1, NextTurnOK, RowsStay
<1>4. CASE EndSession
  <2>1. traces' = traces
    BY <1>4 DEF EndSession
  <2> QED BY <1>4, <2>1, EndSessionOK, RowsStay
<1>5. CASE ExecuteLate
  BY <1>5, ExecuteLateOK
<1>6. ASSUME NEW e \in TraceMemories, WriteMemory(e) PROVE TraceInv' /\ RowsMove
  <2>1. traces' = traces
    BY <1>6 DEF WriteMemory
  <2> QED BY <1>6, <2>1, WriteMemoryOK, RowsStay
<1>7. ASSUME NEW h \in CaptureHooks, RunHook(h) PROVE TraceInv' /\ RowsMove
  <2>1. traces' = traces
    BY <1>7 DEF RunHook
  <2> QED BY <1>7, <2>1, RunHookOK, RowsStay
<1>8. ASSUME NEW h \in CaptureHooks, CallTool(h) PROVE TraceInv' /\ RowsMove
  BY <1>8, CallToolOK
<1>9. ASSUME NEW h \in CaptureHooks, CallFails(h) PROVE TraceInv' /\ RowsMove
  BY <1>9, CallFailsOK
<1>10. ASSUME NEW old \in SUBSET Turns, ReadSweep(old) PROVE TraceInv' /\ RowsMove
  BY <1>10, ReadSweepOK
<1>11. CASE UNCHANGED traceVars
  <2>1. UNCHANGED <<talk, revision, traces, capture, late, trail>>
    BY <1>11 DEF traceVars
  <2>2. TraceInv'
    BY <2>1 DEF TraceInv, TraceTypes
  <2> QED BY <2>1, <2>2, RowsStay
<1> QED BY <1>1, <1>2, <1>3, <1>4, <1>5, <1>6, <1>7, <1>8, <1>9, <1>10, <1>11 DEF TraceNext

(* What the invariant says of the rows a reader sees.                       *)
LEMMA TraceHolds == TraceInv => MessagesInOrder /\ FinalIsOwn /\ LinkedWasWritten
<1> SUFFICES ASSUME TraceInv PROVE MessagesInOrder /\ FinalIsOwn /\ LinkedWasWritten
  OBVIOUS
<1>1. MessagesInOrder
  <2> SUFFICES ASSUME NEW t \in Turns
               PROVE  /\ \A i \in DOMAIN traces[t].messages : traces[t].messages[i] = i
                      /\ Len(traces[t].messages) <= talk[t].messages
                      /\ trail.sent[t] <= Len(traces[t].messages)
    BY DEF MessagesInOrder
  <2>1. RowOK(t, traces[t], talk, trail.own) /\ trail.sent[t] <= Len(traces[t].messages)
    BY TraceParts
  <2>2. DOMAIN traces[t].messages = 1..Len(traces[t].messages)
    BY TraceParts, RowIs, LenProperties
  <2> QED BY <2>1, <2>2 DEF RowOK
<1>2. FinalIsOwn
  BY TraceParts DEF FinalIsOwn, RowOK
<1>3. LinkedWasWritten
  BY TraceParts DEF LinkedWasWritten, RowOK
<1> QED BY <1>1, <1>2, <1>3

(* For any turns, messages, memories, hooks, lost, repeated and late calls: *)
(* a trace holds the messages of its turn in their order, each once and all *)
(* that a hook got an answer for, its final text is that of its turn, it    *)
(* links only what its turn wrote, and once closed it is not rewritten.     *)
THEOREM TracesStayTrue == TraceSpec => TracesTrue
<1>1. TraceInv /\ [TraceNext]_traceVars => TraceInv'
  BY TraceStep
<1>2. TraceInv /\ [TraceNext]_traceVars =>
        [\A t \in Turns : traces[t].status \in {"completed", "incomplete"} =>
           traces'[t].status = traces[t].status /\ traces'[t].final = traces[t].final]_traceVars
  BY TraceStep DEF RowsMove, Follows
<1> QED BY <1>1, <1>2, TraceStart, TraceHolds, PTL DEF TraceSpec, TracesTrue, TerminalSticks

=============================================================================
