--------------------------- MODULE EbicsTransfer ----------------------------
(***************************************************************************)
(* Downloads and uploads of the EBICS backend (backends/aqebics), one call *)
(* after the other, by a user who is enabled and locked (see EbicsKeys).   *)
(*                                                                         *)
(*   EBC_Provider_XchgDownloadRequest_H002(), _H003()   requests/          *)
(*   EBC_Provider_XchgUploadRequest_H002(), _H003()                        *)
(*   EBC_Provider_DownloadIntoContextWithSession()      client/p_tools.c   *)
(*                                                                         *)
(* A download: an initial request, a request for every further segment,    *)
(* decoding, a receipt; then the data go to the application.  The receipt  *)
(* makes the bank take the data off its list.  An upload: an initial       *)
(* request and a request with every segment.                               *)
(*                                                                         *)
(* The bank is external: it keeps the statements nobody has fetched, cuts  *)
(* an answer into any number of segments, and may refuse a request in the  *)
(* header of its answer (technical code) or in the body (order code).  A   *)
(* request and an answer may get lost, an answer may lack what it should   *)
(* hold.                                                                   *)
(*                                                                         *)
(* EbicsKeys and this module have no name in common: Ebics_proofs extends  *)
(* both.                                                                   *)
(***************************************************************************)
EXTENDS Integers, Sequences

CONSTANTS
    MaxItems,    \* bound: statements that arrive at the bank
    MaxSegments, \* bound: segments of an answer, or of an order
    MaxCalls     \* bound: calls of the application

ASSUME EbicsTransferAssumption ==
    MaxItems \in Nat /\ MaxSegments \in Nat \ {0} /\ MaxCalls \in Nat

VARIABLES
    version, \* protocol version of the user
    calls,   \* number of calls so far
    stage,      \* where the call stands
    op,      \* "download" or "upload"
    receipt, \* withReceipt: will the receipt be a positive one?
    seg,     \* segmentNumber
    count,   \* segmentCount, numSegs
    buffer,  \* the segments in dbuffer
    result,  \* what the last call returned
    trouble, \* worst thing that has happened in this call
    arrived, \* number of statements that have arrived at the bank
    fresh,   \* those the bank will send
    inTx,    \* those in the answer to the last download
    got,     \* segments of the last upload that the bank has: <<number, last>>
    handed   \* statements the application was given

call   == <<version, calls, op, receipt>>
place  == <<seg, count, buffer>>
atBank == <<arrived, fresh, inTx, got>>
transferVars == <<call, stage, place, result, trouble, atBank, handed>>

Version == {"H002", "H003"}
Stage   == {"idle", "init", "segments", "decode", "receipt", "import", "upload"}
Item    == 1..MaxItems

TransferInit ==
    /\ version \in Version
    /\ calls = 0 /\ stage = "idle" /\ op = "download" /\ receipt = FALSE
    /\ seg = 0 /\ count = 0 /\ buffer = <<>>
    /\ result = "none" /\ trouble = "none"
    /\ arrived = 0 /\ fresh = {} /\ inTx = {} /\ got = <<>>
    /\ handed = {}

\* A statement arrives at the bank.
Arrive ==
    /\ arrived < MaxItems
    /\ arrived' = arrived + 1
    /\ fresh' = fresh \cup {arrived + 1}
    /\ UNCHANGED <<call, stage, place, result, trouble, inTx, got, handed>>

\* Data fill n segments; a download learns the number from the bank.
Call(o, r, n) ==
    /\ stage = "idle" /\ calls < MaxCalls
    /\ calls' = calls + 1
    /\ op' = o /\ receipt' = r
    /\ seg' = 0 /\ count' = n /\ buffer' = <<>>
    /\ result' = "none" /\ trouble' = "none"
    /\ inTx' = {} /\ got' = <<>>
    /\ stage' = "init"
    /\ UNCHANGED <<version, arrived, fresh, handed>>

Return(r) == stage' = "idle" /\ result' = r

\* A request cannot be made (token, keys), or it, or its answer, gets lost, or
\* the answer has a technical code or lacks what it should hold.  The bank may
\* have handled the request all the same (heard).
Fails ==
    /\ Return("error")
    /\ trouble' = "fault"
    /\ UNCHANGED <<call, place, handed>>

\* The program dies.
ProgramDies ==
    /\ stage # "idle"
    /\ Return("died")
    /\ trouble' = "fault"
    /\ UNCHANGED <<call, place, atBank, handed>>

-----------------------------------------------------------------------------
(* Download.                                                               *)

InitDownload(n) ==
    /\ stage = "init" /\ op = "download" /\ fresh # {}
    /\ inTx' = fresh
    /\ count' = n /\ seg' = 2 /\ buffer' = <<1>>
    /\ stage' = IF n > 1 THEN "segments" ELSE "decode"
    /\ UNCHANGED <<call, result, trouble, arrived, fresh, got, handed>>

\* Order code 0x090005.
NoData ==
    /\ stage = "init" /\ op = "download" /\ fresh = {}
    /\ Return("noData")
    /\ UNCHANGED <<call, place, trouble, atBank, handed>>

InitDownloadFails ==
    /\ stage = "init" /\ op = "download"
    /\ Fails
    /\ inTx' \in {inTx, fresh}
    /\ UNCHANGED <<arrived, fresh, got>>

\* The answer has no transaction id, or no segment: the functions return the
\* result of the exchange, 0, without having decoded anything.
NoTransaction ==
    /\ stage = "init" /\ op = "download" /\ fresh # {}
    /\ trouble' = "ignored"
    /\ stage' = "import"
    /\ UNCHANGED <<call, place, result, atBank, handed>>

\* Mutant: H002 leaves one segment out, too.
LastSegment_Early(v) == seg + 1 >= count

\* H002 compares the number of the segment it has, H003 that of the next one.
LastSegment(v) == IF v = "H003" THEN seg + 1 >= count ELSE seg >= count

NextSegment ==
    /\ stage = "segments"
    /\ buffer' = Append(buffer, seg)
    /\ seg' = seg + 1
    /\ stage' = IF LastSegment(version) THEN "decode" ELSE "segments"
    /\ UNCHANGED <<call, count, result, trouble, atBank, handed>>

SegmentFails ==
    /\ stage = "segments"
    /\ Fails
    /\ UNCHANGED atBank

Whole == buffer = [i \in 1..count |-> i]

\* Base64, decryption, and decompression, which fails without its last byte.
Decode ==
    /\ stage = "decode"
    /\ IF Whole THEN stage' = "receipt" /\ UNCHANGED result ELSE Return("error")
    /\ UNCHANGED <<call, place, trouble, atBank, handed>>

DecodeFails ==
    /\ stage = "decode"
    /\ Fails
    /\ UNCHANGED atBank

\* The bank gets the receipt.
Receipted ==
    /\ fresh' = IF receipt THEN fresh \ inTx ELSE fresh
    /\ UNCHANGED <<arrived, inTx, got>>

Receipt ==
    /\ stage = "receipt"
    /\ Receipted
    /\ stage' = "import"
    /\ UNCHANGED <<call, place, result, trouble, handed>>

\* The bank refuses the receipt in the body; H002 does not look there.
ReceiptRefused ==
    /\ stage = "receipt"
    /\ IF version = "H003"
         THEN Fails
         ELSE /\ stage' = "import" /\ trouble' = "ignored"
              /\ UNCHANGED <<call, place, result, handed>>
    /\ UNCHANGED atBank

ReceiptFails ==
    /\ stage = "receipt"
    /\ Fails
    /\ Receipted \/ UNCHANGED atBank

\* AB_Banking_ImportFromBufferLoadProfile(), or the output of the command.
Import ==
    /\ stage = "import"
    /\ handed' = IF Whole THEN handed \cup inTx ELSE handed
    /\ Return("ok")
    /\ UNCHANGED <<call, place, trouble, atBank>>

\* Mutant: the result of the import is not looked at.
ImportFails_Ignored ==
    /\ stage = "import"
    /\ Return("ok")
    /\ trouble' = "ignored"
    /\ UNCHANGED <<call, place, atBank, handed>>

ImportFails ==
    /\ stage = "import"
    /\ Fails
    /\ UNCHANGED atBank

-----------------------------------------------------------------------------
(* Upload.                                                                 *)

InitUpload ==
    /\ stage = "init" /\ op = "upload"
    /\ seg' = 1
    /\ stage' = "upload"
    /\ UNCHANGED <<call, count, buffer, result, trouble, atBank, handed>>

InitUploadFails ==
    /\ stage = "init" /\ op = "upload"
    /\ Fails
    /\ UNCHANGED atBank

\* The answer has no transaction id: the result of the exchange, 0, again.
NoUploadTransaction ==
    /\ stage = "init" /\ op = "upload"
    /\ Return("ok")
    /\ trouble' = "ignored"
    /\ UNCHANGED <<call, place, atBank, handed>>

\* Mutant: i==numSegs, which never happens, marks the last segment.
IsLast_Never(s) == s = count + 1

IsLast(s) == s = count

Sent ==
    /\ got' = Append(got, <<seg, IsLast(seg)>>)
    /\ UNCHANGED <<arrived, fresh, inTx>>

\* The loop goes on with the next segment, or ends.
Onwards ==
    /\ seg' = seg + 1
    /\ IF seg = count THEN Return("ok") ELSE UNCHANGED <<stage, result>>
    /\ UNCHANGED <<call, count, buffer, handed>>

SendSegment ==
    /\ stage = "upload"
    /\ Sent /\ Onwards
    /\ UNCHANGED trouble

\* The order code of the answer to a segment is only logged.
SegmentRefused ==
    /\ stage = "upload"
    /\ Onwards
    /\ trouble' = "ignored"
    /\ UNCHANGED atBank

SendSegmentFails ==
    /\ stage = "upload"
    /\ Fails
    /\ Sent \/ UNCHANGED atBank

-----------------------------------------------------------------------------
Download ==
    \/ \E n \in 1..MaxSegments : InitDownload(n)
    \/ NoData \/ InitDownloadFails \/ NoTransaction
    \/ NextSegment \/ SegmentFails
    \/ Decode \/ DecodeFails
    \/ Receipt \/ ReceiptRefused \/ ReceiptFails
    \/ Import \/ ImportFails

Upload ==
    \/ InitUpload \/ InitUploadFails \/ NoUploadTransaction
    \/ SendSegment \/ SegmentRefused \/ SendSegmentFails

TransferNext ==
    \/ Arrive
    \/ \E r \in BOOLEAN : Call("download", r, 0)
    \/ \E n \in 1..MaxSegments : Call("upload", FALSE, n)
    \/ Download \/ Upload \/ ProgramDies

TransferSpec == TransferInit /\ [][TransferNext]_transferVars

-----------------------------------------------------------------------------
\* Types of the variables.
TransferTypeOK ==
    /\ version \in Version
    /\ calls \in Nat
    /\ stage \in Stage
    /\ op \in {"download", "upload"}
    /\ receipt \in BOOLEAN
    /\ seg \in Nat /\ count \in Nat
    /\ buffer \in Seq(Nat)
    /\ result \in {"none", "ok", "noData", "error", "died"}
    /\ trouble \in {"none", "ignored", "fault"}
    /\ arrived \in Nat
    /\ fresh \subseteq Nat /\ inTx \subseteq Nat /\ handed \subseteq Nat
    /\ got \in Seq(Nat \X BOOLEAN)

\* No statement gets lost without notice: what a call that did not fail has
\* made the bank take off its list, the application has.  (The receipt is sent
\* before the data are imported: a call that fails in between loses them.)
NothingLost ==
    stage = "idle" /\ result \in {"ok", "noData"} =>
      inTx \subseteq handed \cup fresh

\* When a call returns 0, and no answer held a refusal or a gap the code does
\* not look at, all segments have made their way in their order, with the last
\* one, and no other, marked as such.
SuccessIsWhole ==
    stage = "idle" /\ result = "ok" /\ trouble # "ignored" =>
        IF op = "download"
          THEN Whole /\ inTx \subseteq handed
          ELSE got = [i \in 1..count |-> <<i, i = count>>]

\* A call in which nothing goes wrong succeeds: but for downloads with H003 of
\* more than two segments, the last of which is never asked for.
FaultlessSucceeds ==
    stage = "idle" /\ trouble = "none" =>
        \/ result # "error"
        \/ version = "H003" /\ op = "download" /\ count > 2

\* What is so at every step of a call.
PhaseOK ==
    /\ stage = "init" =>
         trouble = "none" /\ inTx = {} /\ got = <<>> /\ buffer = <<>>
         /\ (op = "upload" => count # 0)
    /\ stage \in {"segments", "decode", "receipt", "import"} =>
         op = "download" /\ trouble # "fault"
    /\ stage \in {"segments", "decode", "receipt"} => trouble = "none"
    /\ stage = "segments" =>
         seg \in 2..count /\ buffer = [i \in 1..(seg - 1) |-> i]
    /\ stage = "decode" => Whole \/ (version = "H003" /\ count > 2)
    /\ stage = "receipt" => Whole
    /\ stage = "import" => Whole \/ (trouble = "ignored" /\ inTx = {})
    /\ stage = "upload" =>
         /\ op = "upload" /\ inTx = {} /\ seg \in 1..count
         /\ trouble # "fault"
         /\ trouble = "none" => got = [i \in 1..(seg - 1) |-> <<i, i = count>>]
    /\ stage = "idle" /\ result = "noData" => inTx = {}

\* The inductive invariant.
TransferInv ==
    /\ TransferTypeOK /\ PhaseOK
    /\ NothingLost /\ SuccessIsWhole /\ FaultlessSucceeds
=============================================================================
