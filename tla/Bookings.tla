------------------------------ MODULE Bookings ------------------------------
(***************************************************************************)
(* BookingService: a request for a worker's time, the worker's answer, and *)
(* cancellation by either party.  Bookings of other workers never meet     *)
(* these in a query, so one worker is followed; a time is a set of hours.  *)
(* Availability slots are left out: no booking is checked against them.    *)
(***************************************************************************)
EXTENDS Requests

CONSTANTS
  MaxBookings,   \* bound on the requests
  Times          \* the times asked for

ASSUME BookingsAssumption == MaxBookings \in Nat /\ \A t \in Times : t # {}

VARIABLE bookings

BookingIds == 0 .. MaxBookings - 1

BookingsInit ==
  bookings = [next |-> 0,
              time |-> [b \in BookingIds |-> {}],
              status |-> [b \in BookingIds |-> "pending"],
              \* the bookings confirmed while b was made: what its check could see
              before |-> [b \in BookingIds |-> {}]]

Made == 0 .. bookings.next - 1
Confirmed == {b \in Made : bookings.status[b] = "confirmed"}
Overlap(s, t) == s \cap t # {}
Conflicts(t) == {b \in Confirmed : Overlap(bookings.time[b], t)}

createBooking(c, t) ==
  /\ Conflicts(t) = {}
  /\ Reads(c, "insert", None, Conflicts(t), t)
  /\ UNCHANGED bookings

createBooking_insert(c) ==
  /\ At(c, "insert")
  /\ bookings.next < MaxBookings
  /\ LET b == bookings.next IN
     bookings' = [bookings EXCEPT !.next = b + 1, !.time[b] = call[c].arg,
                                  !.before[b] = Confirmed]
  /\ Trusts(c, Conflicts(call[c].arg))
  /\ Ends(c)

respondToBooking(c, b, answer) ==
  /\ b \in Made
  /\ bookings.status[b] = "pending"
  /\ Reads(c, "save", b, bookings.status[b], answer)
  /\ UNCHANGED bookings

\* A mutant of cancelBooking: closed bookings are not turned away.
cancelBooking_Closed(c, b) ==
  /\ b \in Made
  /\ Reads(c, "save", b, bookings.status[b], "cancelled")
  /\ UNCHANGED bookings

cancelBooking(c, b) ==
  /\ b \in Made
  /\ bookings.status[b] \notin {"rejected", "cancelled"}
  /\ Reads(c, "save", b, bookings.status[b], "cancelled")
  /\ UNCHANGED bookings

\* bookingRepo.save(booking) of either handler.
SaveBooking(c) ==
  /\ At(c, "save")
  /\ bookings' = [bookings EXCEPT !.status[call[c].id] = call[c].arg]
  /\ Trusts(c, bookings.status[call[c].id])
  /\ Ends(c)

BookingsNext ==
  \/ \E c \in Calls, t \in Times : createBooking(c, t)
  \/ \E c \in Calls, b \in BookingIds :
       \/ \E answer \in {"confirmed", "rejected"} : respondToBooking(c, b, answer)
       \/ cancelBooking(c, b)
  \/ \E c \in Calls :
       createBooking_insert(c) \/ SaveBooking(c) \/ (Fails(c) /\ UNCHANGED bookings)

BookingsTypeOK ==
  bookings \in [next : 0 .. MaxBookings, time : [BookingIds -> Times \cup {{}}],
                status : [BookingIds -> {"pending", "confirmed", "rejected", "cancelled"}],
                before : [BookingIds -> SUBSET BookingIds]]

(* Two confirmed bookings overlap only if both were pending together, or a  *)
(* call raced: a request made over a confirmed booking is turned away.      *)
DoubleBookingsWerePending ==
  ~raced => \A a, b \in Confirmed :
              a # b /\ Overlap(bookings.time[a], bookings.time[b])
                => a \notin bookings.before[b] /\ b \notin bookings.before[a]

ClosedBooking(b) == bookings.status[b] \in {"rejected", "cancelled"}
=============================================================================
