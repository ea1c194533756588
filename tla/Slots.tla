------------------------------- MODULE Slots --------------------------------
(***************************************************************************)
(* The slots a schedulable entity offers for a civil date                   *)
(* (qefro-core/src/scheduling.rs, generate_slots, and qefro-db/src/         *)
(* scheduling.rs, availability_with) beside the check that a booking of     *)
(* such a slot meets (enforce_in_tx): two ways of reading the same          *)
(* configuration and the same rows.  The inputs are chosen in Next, the     *)
(* algorithms are operators.                                                *)
(*                                                                          *)
(* Times are even numbers of a unit, counted from the midnight that begins  *)
(* the date; Day - 1, which is odd, stands for 23:59:59.  One time zone     *)
(* without changes of its offset; one resource.                             *)
(***************************************************************************)
EXTENDS Integers, FiniteSets

CONSTANTS Day,        \* 24 hours
          Hours,      \* working windows of the weekday: sets of <<start, end>>
          Lengths,    \* durations and intervals of a configuration
          Buffers,    \* buffers before and after
          Starts,     \* starts of an existing booking
          Longest     \* its longest duration

\* Times of the day are before its end; a length is not 0; starts may lie on other days.
SlotsAssumption ==
  /\ Day \in Nat \ {0}
  /\ Hours \subseteq SUBSET ((0..(Day - 1)) \X (0..(Day - 1)))
  /\ Lengths \subseteq Nat \ {0} /\ Buffers \subseteq Nat
  /\ Starts \subseteq Int /\ Longest \in Nat

VARIABLES config,  \* SchedulingConfig of the entity
          booked   \* the existing bookings of the resource

slotVars == <<config, booked>>

Window(s, e) == [start |-> s, end |-> e]
Configs == [hours : Hours, duration : Lengths, interval : Lengths,
            before : Buffers, after : Buffers, blackout : BOOLEAN]
\* A booking; an ignored one is cancelled or completed.
Bookings == {[start |-> s, end |-> s + n, ignored |-> i] :
                s \in Starts, n \in {k \in 1..Longest : k % 2 = 0}, i \in BOOLEAN}

TypeOK == config \in Configs /\ booked \subseteq Bookings

Init == config \in Configs /\ booked = {}

-----------------------------------------------------------------------------
Overlaps(a, b) == a.start < b.end /\ b.start < a.end
WithBuffer(w) == Window(w.start - config.before, w.end + config.after)

\* working_windows_for: without working hours, the day to its last second.
WorkingWindows ==
    IF config.hours = {} THEN {<<0, Day - 1>>}
    ELSE {h \in config.hours : h[2] > h[1]}

\* load_candidates: the rows that start within 24 hours of the window.
Candidates(w) == {b \in booked : w.start - Day <= b.start /\ b.start < w.end + Day}
\* Those that count, with their buffers (collect_booked, reject_overlap).
Counted(bs) == {WithBuffer(b) : b \in {c \in bs : ~c.ignored}}

\* Mutant of Fits: a slot need only begin within the working hours.
FitsStart(start, end) == start <= end
\* while cursor + duration <= window_end
Fits(start, end) == start + config.duration <= end

Steps(w) == {s \in w[1]..w[2] : (s - w[1]) % config.interval = 0 /\ Fits(s, w[2])}
SlotStarts == IF config.blackout THEN {} ELSE UNION {Steps(w) : w \in WorkingWindows}
Slot(s) == Window(s, s + config.duration)

\* availability_with asks for the rows around a window at noon.
Noon == Window(Day \div 2, Day \div 2 + config.duration)
Available(slot) == \A b \in Counted(Candidates(Noon)) : ~Overlaps(slot, b)

-----------------------------------------------------------------------------
\* window_within_working_hours: on one date, and inside one working window.
Date(t) == t \div Day
WithinHours(w) ==
    \/ config.hours = {}
    \/ /\ Date(w.start) = Date(w.end)
       /\ \E h \in WorkingWindows : w.start >= h[1] /\ w.end <= h[2]

NoConflict(w) ==
    \A b \in Counted(Candidates(WithBuffer(w))) : ~Overlaps(WithBuffer(w), b)

\* enforce_in_tx, for a booking that names its start alone.
Accepts(w) == ~config.blackout /\ WithinHours(w) /\ NoConflict(w)

-----------------------------------------------------------------------------
\* The configuration is published; somebody books.  Both checks look at each
\* booking by itself, so one is enough.
Configure == booked = {} /\ config' \in Configs /\ UNCHANGED booked
Book == booked = {} /\ (\E b \in Bookings : booked' = {b}) /\ UNCHANGED config

Next == Book \/ Configure

Spec == Init /\ [][Next]_slotVars

-----------------------------------------------------------------------------
Shorter(n) == \A b \in booked : b.end - b.start <= n

(* What the calendar offers and what a booking is granted agree: a slot it  *)
(* shows as taken would be refused (when a booking and the buffer after it  *)
(* last up to 24 hours, and so does the buffer before it, as the check      *)
(* looks no further), and, without buffers and for bookings of up to 12     *)
(* hours (the offer looks back from noon), a slot it shows as free would be *)
(* accepted: no slot reaches beyond the working hours or a blacked-out day. *)
SlotsAgree ==
    \A s \in SlotStarts :
        /\ Shorter(Day - config.after) /\ config.before <= Day
                => (Accepts(Slot(s)) => Available(Slot(s)))
        /\ Shorter(Day \div 2) /\ config.before = 0 /\ config.after = 0
                => (Available(Slot(s)) => Accepts(Slot(s)))
=============================================================================
