------------------------------- MODULE IFlash -------------------------------
(***************************************************************************)
(* The user pages of the internal flash, written by Flash::write of         *)
(* ebox_iflash.cpp as it is built (FLASH_OVERRIDE 1): page by page, through *)
(* an erase when a byte of the range is not erased.  The chip may be reset  *)
(* between any two operations of the flash controller; one that the reset    *)
(* interrupts counts as done or as not begun.                               *)
(*                                                                         *)
(* Addresses count from _start_addr.  The half word 0x0000, which the       *)
(* controller programs over anything, is not among the data.                *)
(***************************************************************************)
EXTENDS Integers, Sequences

CONSTANTS
  Pages,    (* pages of the user area: nPage                                *)
  PageSize, (* bytes of a page: 1024 or 2048                                *)
  Erased,   (* the byte 0xFF                                               *)
  Data,     (* the other bytes that are written                            *)
  Buffers,  (* what a program writes: the bytes, and the one that happens   *)
            (* to follow them in memory                                     *)
  MaxCalls  (* bound on the writes                                         *)

ASSUME AreaAssumption ==
  Pages \in Nat \ {0} /\ PageSize \in Nat \ {0} /\ PageSize % 2 = 0
ASSUME DataAssumption == Erased \notin Data
ASSUME CallsAssumption == MaxCalls \in Nat
ASSUME BuffersAssumption ==
  \A b \in Buffers : b \in Seq(Data \cup {Erased}) /\ Len(b) > 0

Addr == 0..Pages * PageSize - 1
Byte == Data \cup {Erased}

VARIABLES
  mem,    (* the bytes of the area                                         *)
  pgerr,  (* the controller's programming error, which nothing clears       *)
  locked, (* the controller is locked                                      *)
  pc,     (* where write stands                                            *)
  start, length, buf, (* its arguments                                      *)
  src,    (* the bytes that have been dealt with                            *)
  base, image, size, i, (* write_without_check: address, bytes, number, done *)
  calls,  (* the writes so far, up to MaxCalls                              *)
  before, (* history: mem when write was called                             *)
  result, (* history: how the last write ended                              *)
  torn,   (* history: src's page has been erased and not yet rewritten      *)
  odd     (* history: an odd address or length was asked for since reset    *)

chip    == <<mem, pgerr, locked>>
request == <<start, length, buf>>
loop    == <<base, image, size, i>>
history == <<calls, before, result, torn, odd>>
vars    == <<chip, pc, request, src, loop, history>>

NoLoop  == base' = 0 /\ image' = <<>> /\ size' = 0 /\ i' = 0

Init ==
  /\ mem = [a \in Addr |-> Erased] /\ pgerr = FALSE /\ locked = TRUE
  /\ pc = "idle" /\ start = 0 /\ length = 0 /\ buf = <<>> /\ src = 0
  /\ base = 0 /\ image = <<>> /\ size = 0 /\ i = 0
  /\ calls = 0 /\ before = mem /\ result = "none" /\ torn = FALSE /\ odd = FALSE

-----------------------------------------------------------------------------
(* The part of the request in the page that write is at. *)
Page      == (start + src) \div PageSize          (* secpos                  *)
Offset    == (start + src) % PageSize             (* secoff                  *)
Remain_all == length - src
Remain    == LET room == PageSize - Offset        (* secremain               *)
             IN  IF length - src <= room THEN length - src ELSE room
PageStart == Page * PageSize
InPage(a) == a \div PageSize = Page

Call ==
  /\ pc = "idle" /\ calls < MaxCalls
  /\ \E b \in Buffers, a \in Addr :
       /\ start' = a /\ length' = Len(b) - 1 /\ buf' = b
       /\ odd' = (odd \/ start' % 2 = 1 \/ length' % 2 = 1)
  /\ src' = 0 /\ locked' = FALSE /\ pc' = "look"
  /\ calls' = calls + 1 /\ before' = mem /\ result' = "none" /\ torn' = FALSE
  /\ UNCHANGED <<mem, pgerr, loop>>

(* Only the first byte is looked at. *)
NeedsErase_first == Remain > 0 /\ mem[start + src] # Erased

NeedsErase == \E k \in 0..Remain - 1 : mem[start + src + k] # Erased

(* The page is not read back. *)
Merged_fresh == [k \in 0..PageSize - 1 |->
                   IF k \in Offset..Offset + Remain - 1
                   THEN buf[src + k - Offset + 1] ELSE Erased]

(* The page as it was, with the bytes of the request in it. *)
Merged == [k \in 0..PageSize - 1 |->
             IF k \in Offset..Offset + Remain - 1 THEN buf[src + k - Offset + 1]
                                                  ELSE mem[PageStart + k]]

Look ==
  /\ pc = "look"
  /\ IF NeedsErase
     THEN /\ pc' = "erase"
          /\ base' = PageStart /\ image' = Merged /\ size' = PageSize
     ELSE /\ pc' = "program"
          /\ base' = start + src /\ size' = Remain
          /\ image' = [k \in 0..Remain |-> buf[src + k + 1]]
  /\ i' = 0
  /\ UNCHANGED <<chip, request, src, history>>

(* An early return leaves the controller unlocked. *)
EraseFails ==
  /\ pgerr
  /\ pc' = "idle" /\ result' = "failed" /\ NoLoop
  /\ UNCHANGED <<mem, torn>>

Erases ==
  /\ ~pgerr
  /\ mem' = [a \in Addr |-> IF InPage(a) THEN Erased ELSE mem[a]]
  /\ pc' = "program" /\ torn' = TRUE
  /\ UNCHANGED <<result, loop>>

ErasePage ==
  /\ pc = "erase"
  /\ EraseFails \/ Erases
  /\ UNCHANGED <<pgerr, locked, request, src, calls, before, odd>>

(* FLASH_ProgramHalfWord, and the loop of write_without_check, which ends    *)
(* when a status is not FLASH_COMPLETE.                                     *)
Target == base + i

Refused ==  (* PGERR stands in the status register *)
  pgerr /\ i' = size /\ UNCHANGED <<mem, pgerr, pc>>

Faults ==   (* the core, at an odd address *)
  /\ ~pgerr /\ Target % 2 = 1
  /\ pc' = "fault" /\ UNCHANGED <<mem, pgerr, i>>

Unerased == (* the controller, over a half word that is not erased *)
  /\ ~pgerr /\ Target % 2 = 0
  /\ mem[Target] # Erased \/ mem[Target + 1] # Erased
  /\ pgerr' = TRUE /\ i' = size /\ UNCHANGED <<mem, pc>>

Programs ==
  /\ ~pgerr /\ Target % 2 = 0
  /\ mem[Target] = Erased /\ mem[Target + 1] = Erased
  /\ mem' = [mem EXCEPT ![Target] = image[i], ![Target + 1] = image[i + 1]]
  /\ i' = i + 2 /\ UNCHANGED <<pgerr, pc>>

ProgramHalfWord ==
  /\ pc = "program" /\ i < size
  /\ Refused \/ Faults \/ Unerased \/ Programs
  /\ UNCHANGED <<locked, request, src, base, image, size, history>>

Returns ==
  /\ length - src = Remain
  /\ pc' = "idle" /\ result' = "done" /\ locked' = TRUE
  /\ UNCHANGED src

NoMorePages ==
  /\ length - src # Remain /\ Page + 1 >= Pages
  /\ pc' = "idle" /\ result' = "failed"
  /\ UNCHANGED <<src, locked>>

NextPage ==
  /\ length - src # Remain /\ Page + 1 < Pages
  /\ pc' = "look" /\ src' = src + Remain
  /\ UNCHANGED <<locked, result>>

(* write_without_check has returned; its result is not looked at. *)
PageEnds ==
  /\ pc = "program" /\ i >= size
  /\ torn' = FALSE /\ NoLoop
  /\ Returns \/ NoMorePages \/ NextPage
  /\ UNCHANGED <<mem, pgerr, request, calls, before, odd>>

(* The reset clears the error and locks the controller. *)
Reset ==
  /\ pc' = "idle" /\ pgerr' = FALSE /\ locked' = TRUE /\ odd' = FALSE
  /\ result' = "reset" /\ NoLoop
  /\ UNCHANGED <<mem, request, src, calls, before, torn>>

Next == Call \/ Look \/ ErasePage \/ ProgramHalfWord \/ PageEnds \/ Reset

Spec == Init /\ [][Next]_vars

-----------------------------------------------------------------------------
Asked == {a \in Addr : a \in start..start + length - 1}

(* The ranges of the variables. *)
TypeOK ==
  /\ mem \in [Addr -> Byte] /\ before \in [Addr -> Byte]
  /\ pgerr \in BOOLEAN /\ locked \in BOOLEAN
  /\ torn \in BOOLEAN /\ odd \in BOOLEAN
  /\ pc \in {"idle", "look", "erase", "program", "fault"}
  /\ result \in {"none", "done", "failed", "reset"}
  /\ start \in Addr /\ length \in Nat /\ src \in 0..length
  /\ base \in Addr /\ size \in 0..PageSize /\ i \in 0..size + 1
  /\ calls \in 0..MaxCalls
  /\ (pc # "idle" => base + size <= Pages * PageSize)

(* Only the bytes that write was asked to change have changed since it was   *)
(* called, but for the page whose rewriting is under way, or was when the    *)
(* chip was reset, and for the second byte of the last half word, if it was  *)
(* erased: a reset costs the other bytes of one page, never more.  That the  *)
(* second byte can change is against ebox_iflash.cpp:148.                    *)
OthersKept ==
  \A a \in Addr \ Asked :
    mem[a] # before[a] => \/ torn /\ InPage(a)
                          \/ a = start + length /\ a % 2 = 1
                             /\ before[a] = Erased

(* A write that returns the number of its bytes has stored them, whatever     *)
(* its address and length and whatever earlier resets left behind, but where  *)
(* the controller's programming error stands; and that it does only if an    *)
(* odd address or length was asked for since the reset.  Where it stands,    *)
(* write reports what it has not stored, against ebox_iflash.cpp:145.        *)
StoredAsAsked ==
  /\ ~odd => ~pgerr
  /\ result = "done" /\ ~pgerr /\ pc = "idle" =>
       \A a \in Asked : mem[a] = buf[a - start + 1]
=============================================================================
