---------------------------- MODULE RoomCalendar ----------------------------
(***************************************************************************)
(* What the booking core promises about rooms, without saying how: holdings*)
(* of the same room never come closer than Gap, they are taken all or      *)
(* nothing, and one request changes or releases one holding.               *)
(***************************************************************************)
EXTENDS Integers

CONSTANT Gap  \* free ticks kept between two holdings of a room

VARIABLE held \* the set of holdings: [id, room, start, end]

(* Two holdings may coexist. *)
Compatible(h, k) ==
  h.room = k.room => h.end + Gap <= k.start \/ k.end + Gap <= h.start

Init == held = {}

(* A request takes one slot, or every slot of a series at once. *)
Reserve ==
  LET new == held' \ held
  IN  /\ held \subseteq held'
      /\ \A n \in new :
           /\ \A h \in held : h.id # n.id
           /\ \A k \in held' \ {n} : Compatible(n, k)

(* A holding moves, grows or shrinks. *)
Change ==
  \E h \in held, n \in held' :
    /\ n.id = h.id
    /\ held' = (held \ {h}) \cup {n}
    /\ \A k \in held \ {h} : Compatible(n, k) /\ Compatible(k, n)

Release == \E h \in held : held' = held \ {h}

Next == Reserve \/ Change \/ Release

Spec == Init /\ [][Next]_held

(* The point of the calendar. *)
Exclusive == \A h, k \in held : h # k => Compatible(h, k)
=============================================================================
