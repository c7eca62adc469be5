------------------------------- MODULE P4Twai -------------------------------
(***************************************************************************)
(* TWAI0 of the P4: a transmit request completes TxDelay cycles later, and *)
(* one frame of a virtual node arrives RxDelay cycles after the controller *)
(* leaves reset mode.  Times are relative to hart 0's cycle counter, by    *)
(* which esp32p4_periodic polls; requests are timed by the counter of the  *)
(* hart that writes, up to TwaiAhead ahead of or TwaiBehind behind it.     *)
(* The driver counts its message (tx_msg_count) within DriverTime cycles   *)
(* of the request; its handler runs only while the source is pending.      *)
(***************************************************************************)
EXTENDS Integers

CONSTANTS
  TxDelay, RxDelay,        \* 20000 and 150000 cycles
  TwaiAhead, TwaiBehind,   \* bounds of the writer's clock skew
  DriverTime,              \* bound: cycles from a request to its count
  TwaiStep                 \* bound: cycles between two polls

ASSUME TwaiAssumption ==
  /\ TxDelay \in Nat /\ RxDelay \in Nat \ {0} /\ TwaiAhead \in Nat
  /\ TwaiBehind \in Nat /\ DriverTime \in Nat /\ TwaiStep \in Nat
  /\ DriverTime + TwaiBehind < TxDelay

VARIABLES
  twai_tx_pending,
  twai_tx_left,      \* twai_tx_done_cycle - hart 0's cycle, 0 when passed
  twai_rx_left,      \* twai_rx_deliver_cycle likewise; NotArmed: none
  twai_rx_delivered,
  twai_status,       \* RBS and TCS
  twai_count,        \* rx_message_counter
  twai_intr,         \* TI and RI
  twai_rie,          \* receive interrupt enabled
  twai_source,
  uncounted,         \* driver: a request not yet in tx_msg_count
  request_age,       \* history: hart 0 cycles since the request, up to DriverTime
  told               \* history: the waiting frame was announced with RI

twaiVars == <<twai_tx_pending, twai_tx_left, twai_rx_left, twai_rx_delivered,
              twai_status, twai_count, twai_intr, twai_rie, twai_source,
              uncounted, request_age, told>>

NotArmed == -1
TwaiSkews == -TwaiBehind .. TwaiAhead
Later(t, d) == IF t > d THEN t - d ELSE 0

TwaiInit ==
  /\ twai_tx_pending = FALSE /\ twai_tx_left = 0
  /\ twai_rx_left = NotArmed /\ twai_rx_delivered = FALSE
  /\ twai_status = {} /\ twai_count = 0
  /\ twai_intr = {} /\ twai_rie = FALSE /\ twai_source = FALSE
  /\ uncounted = FALSE /\ request_age = 0 /\ told = FALSE

(* The TWAI part of esp32p4_periodic, d cycles after the last poll.        *)
TwaiPoll(d) ==
  LET left == Later(twai_tx_left, d)
      rxLeft == IF twai_rx_left = NotArmed THEN NotArmed ELSE Later(twai_rx_left, d)
      sent == twai_tx_pending /\ left = 0
      frame == ~twai_rx_delivered /\ rxLeft = 0
  IN  /\ uncounted => request_age + d <= DriverTime
      /\ twai_tx_left' = left
      /\ twai_rx_left' = rxLeft
      /\ twai_tx_pending' = (twai_tx_pending /\ ~sent)
      /\ twai_rx_delivered' = (twai_rx_delivered \/ frame)
      /\ twai_status' = twai_status \cup (IF sent THEN {"tcs"} ELSE {})
                                    \cup (IF frame THEN {"rbs"} ELSE {})
      /\ twai_count' = IF frame THEN twai_count + 1 ELSE twai_count
      /\ twai_intr' = twai_intr \cup (IF sent THEN {"ti"} ELSE {})
                                \cup (IF frame /\ twai_rie THEN {"ri"} ELSE {})
      /\ twai_source' = (twai_source \/ sent \/ (frame /\ twai_rie))
      /\ told' = (told \/ (frame /\ twai_rie))
      /\ request_age' = IF uncounted THEN request_age + d ELSE 0
      /\ UNCHANGED <<twai_rie, uncounted>>

----------------------------------------------------------------------------
(* Register accesses.                                                      *)

(* MODE without its reset bit: (re)arms the frame until it was delivered.  *)
TwaiLeaveReset(skew) ==
  /\ twai_rx_left' = IF twai_rx_delivered THEN twai_rx_left
                     ELSE Later(RxDelay, -skew)
  /\ UNCHANGED <<twai_tx_pending, twai_tx_left, twai_rx_delivered, twai_status,
                 twai_count, twai_intr, twai_rie, twai_source, uncounted,
                 request_age, told>>

TwaiRequestAtOnce(skew) ==
  /\ ~uncounted
  /\ twai_tx_pending' = TRUE /\ twai_tx_left' = 0
  /\ uncounted' = TRUE /\ request_age' = 0
  /\ UNCHANGED <<twai_rx_left, twai_rx_delivered, twai_status, twai_count,
                 twai_intr, twai_rie, twai_source, told>>

(* CMD with TX_REQUEST; a second request moves the completion.             *)
TwaiRequest(skew) ==
  /\ ~uncounted
  /\ twai_tx_pending' = TRUE
  /\ twai_tx_left' = Later(TxDelay, -skew)
  /\ uncounted' = TRUE /\ request_age' = 0
  /\ UNCHANGED <<twai_rx_left, twai_rx_delivered, twai_status, twai_count,
                 twai_intr, twai_rie, twai_source, told>>

(* The driver: tx_msg_count++ after the request.                           *)
TwaiCounts ==
  /\ uncounted
  /\ uncounted' = FALSE /\ request_age' = 0
  /\ UNCHANGED <<twai_tx_pending, twai_tx_left, twai_rx_left, twai_rx_delivered,
                 twai_status, twai_count, twai_intr, twai_rie, twai_source, told>>

TwaiReleaseUnchecked ==
  /\ twai_status' = twai_status \ {"rbs"}
  /\ twai_count' = twai_count - 1
  /\ told' = FALSE
  /\ UNCHANGED <<twai_tx_pending, twai_tx_left, twai_rx_left, twai_rx_delivered,
                 twai_intr, twai_rie, twai_source, uncounted, request_age>>

(* CMD with RELEASE_BUFFER.                                                *)
TwaiRelease ==
  /\ twai_status' = twai_status \ {"rbs"}
  /\ twai_count' = IF twai_count = 0 THEN 0 ELSE twai_count - 1
  /\ told' = FALSE
  /\ UNCHANGED <<twai_tx_pending, twai_tx_left, twai_rx_left, twai_rx_delivered,
                 twai_intr, twai_rie, twai_source, uncounted, request_age>>

(* INTERRUPT_ENABLE: stored only.                                          *)
TwaiEnable(on) ==
  /\ twai_rie' = on
  /\ told' = (told /\ on)
  /\ UNCHANGED <<twai_tx_pending, twai_tx_left, twai_rx_left, twai_rx_delivered,
                 twai_status, twai_count, twai_intr, twai_source, uncounted,
                 request_age>>

IntrAfterReadNoLevel == {}

(* INTERRUPT is cleared by reading it; RI is a level.                      *)
IntrAfterRead == IF "rbs" \in twai_status /\ twai_rie THEN {"ri"} ELSE {}

(* The handler reads INTERRUPT.                                            *)
TwaiReadIntr ==
  /\ twai_source
  /\ twai_intr' = IntrAfterRead
  /\ twai_source' = (IntrAfterRead # {})
  /\ UNCHANGED <<twai_tx_pending, twai_tx_left, twai_rx_left, twai_rx_delivered,
                 twai_status, twai_count, twai_rie, uncounted, request_age, told>>

TwaiGuest ==
  \/ \E skew \in TwaiSkews : TwaiLeaveReset(skew) \/ TwaiRequest(skew)
  \/ TwaiCounts \/ TwaiRelease \/ TwaiReadIntr
  \/ \E on \in BOOLEAN : TwaiEnable(on)

TwaiNext == (\E d \in 0 .. TwaiStep : TwaiPoll(d)) \/ TwaiGuest

TwaiSpec == TwaiInit /\ [][TwaiNext]_twaiVars

----------------------------------------------------------------------------
(* Properties.                                                             *)

(* The message counter never wraps below 0 and the times are relative;     *)
(* there is one frame, and it is there only after its delivery.            *)
TwaiTypeOK ==
  /\ twai_tx_pending \in BOOLEAN /\ twai_tx_left \in Nat
  /\ twai_rx_left \in Nat \cup {NotArmed} /\ twai_rx_delivered \in BOOLEAN
  /\ twai_status \subseteq {"rbs", "tcs"} /\ twai_intr \subseteq {"ti", "ri"}
  /\ twai_count \in {0, 1} /\ (twai_count = 1 => twai_rx_delivered)
  /\ twai_rie \in BOOLEAN /\ twai_source \in BOOLEAN
  /\ uncounted \in BOOLEAN /\ request_age \in 0 .. DriverTime
  /\ told \in BOOLEAN

(* The transmit interrupt never reaches a driver that has not counted the  *)
(* message yet (its handler would assert), whichever hart requested it.    *)
CountedFirst == [][("ti" \in twai_intr' \ twai_intr) => ~uncounted]_twaiVars

(* A frame that was announced keeps its interrupt up until the driver      *)
(* releases the buffer or disables it, although reading INTERRUPT clears   *)
(* it.                                                                     *)
FrameAnnounced ==
  told => "rbs" \in twai_status /\ "ri" \in twai_intr /\ twai_source
=============================================================================
