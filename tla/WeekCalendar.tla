----------------------------- MODULE WeekCalendar -----------------------------
(***************************************************************************)
(* The weekly calendar (WeekCalendar.tsx, CalendarGrid.tsx, weekMath.ts):  *)
(* which week is visible, which column an event falls into in the viewer's *)
(* time zone, where in the column it is drawn and in which lane.           *)
(*                                                                         *)
(* Days are numbered from a Sunday, instants are minutes since day 0 began *)
(* in UTC; a pixel is a minute.  The zone's offset does not change within  *)
(* the instants of an instance (no switch to summer time).                 *)
(***************************************************************************)
EXTENDS Integers, Sequences, FiniteSets, FiniteSetsExt

CONSTANTS
  Item,      \* ids, with the order localeCompare gives them
  Instant,    \* what planned_at may be
  Zone,       \* minutes the viewer's clock is ahead of UTC
  WeekStart,  \* weekStartDow: 0 is Sunday
  FirstDay, MaxDays, MaxWeeks  \* bounds: days that pass, weeks away from today

ASSUME WeekAssumption ==
  /\ Item \subseteq Nat /\ IsFiniteSet(Item)
  /\ Instant \subseteq Int /\ Zone \in Int
  /\ WeekStart \in 0..6
  /\ FirstDay \in Int /\ MaxDays \in Nat /\ MaxWeeks \in Nat

VARIABLES
  planned,     \* planned_at of each event
  today,       \* todayIsoDate() when the page was last rendered
  weekOffset,  \* weeks from the current one
  mounted      \* events are placed after mount only

calendarVars == <<planned, today, weekOffset, mounted>>

CalendarTypeOK ==
  /\ planned \in [Item -> Instant]
  /\ today \in FirstDay..(FirstDay + MaxDays)
  /\ weekOffset \in (-MaxWeeks)..MaxWeeks
  /\ mounted \in BOOLEAN

-----------------------------------------------------------------------------
(* weekMath *)

Dow(day) == day % 7

(* Mutant: the difference is not brought into 0..6.                        *)
StartOfWeekUnwrapped(day) == day - (Dow(day) - WeekStart)

StartOfWeek(day) == day - ((Dow(day) - WeekStart + 7) % 7)

FirstShown == StartOfWeek(today + 7 * weekOffset)
Week == FirstShown..(FirstShown + 6)

-----------------------------------------------------------------------------
(* CalendarGrid *)

GridStart   == 8 * 60
GridEnd     == 22 * 60
EventHeight == 48
MaxTop      == GridEnd - GridStart - EventHeight

(* The viewer's day and minute of an event.                                *)
LocalDay(e) == (planned[e] + Zone) \div 1440
Minute(e)   == (planned[e] + Zone) % 1440
SinceStart(e) == Minute(e) - GridStart

Top(e) ==
  IF SinceStart(e) < 0 THEN 0
  ELSE IF SinceStart(e) > MaxTop THEN MaxTop ELSE SinceStart(e)

(* Mutant: the sort compares ids alone.                                    *)
ComesFirstById(d, e) == d < e

ComesFirst(d, e) == Top(d) < Top(e) \/ (Top(d) = Top(e) /\ d < e)

(* A column holds the events of its day, in the order of the sort.         *)
Column(day) ==
  LET shown == {e \in Item : LocalDay(e) = day}
      size  == Cardinality(shown)
  IN CHOOSE c \in [1..size -> shown] :
       \A i, j \in 1..size : i < j => ComesFirst(c[i], c[j])

Columns == IF mounted THEN {Column(day) : day \in Week} ELSE {<<>>}

(* Into the first lane whose last occupant has ended, or into a new one.   *)
Place(packed, e) ==
  LET free == {l \in DOMAIN packed.ends : packed.ends[l] <= Top(e)}
      lane == IF free = {} THEN Len(packed.ends) + 1 ELSE Min(free)
      end  == Top(e) + EventHeight
  IN [ends |-> IF free = {} THEN Append(packed.ends, end)
                            ELSE [packed.ends EXCEPT ![lane] = end],
      lanes |-> Append(packed.lanes, lane)]

(* The events of a column are placed one after the other.                  *)
Packed(column) ==
  LET after[n \in 0..Len(column)] ==
        IF n = 0 THEN [ends |-> <<>>, lanes |-> <<>>]
                 ELSE Place(after[n - 1], column[n])
  IN after[Len(column)]

-----------------------------------------------------------------------------
(* The page *)

(* The first render in the browser equals the server's: no events.         *)
CalendarInit ==
  /\ planned \in [Item -> Instant]
  /\ today = FirstDay /\ weekOffset = 0 /\ mounted = FALSE

Mount == mounted' = TRUE /\ UNCHANGED <<planned, today, weekOffset>>

Go(offset) ==
  /\ mounted /\ offset \in (-MaxWeeks)..MaxWeeks
  /\ weekOffset' = offset
  /\ UNCHANGED <<planned, today, mounted>>

Previous == Go(weekOffset - 1)
NextWeek == Go(weekOffset + 1)
Today    == Go(0)

(* CalendarPage renders again on a later day; the offset stays.            *)
RenderLater ==
  /\ today < FirstDay + MaxDays
  /\ today' = today + 1
  /\ UNCHANGED <<planned, weekOffset, mounted>>

CalendarNext == Mount \/ Previous \/ NextWeek \/ Today \/ RenderLater

CalendarSpec == CalendarInit /\ [][CalendarNext]_calendarVars

-----------------------------------------------------------------------------
(* Properties *)

(* The week begins on the locale's first day and, unless the viewer has    *)
(* gone elsewhere, holds today, also when the first day is late in the     *)
(* week or midnight passes with the page open (weekMath.ts:82).            *)
WeekHoldsToday ==
  /\ Dow(FirstShown) = WeekStart
  /\ today + 7 * weekOffset \in Week

(* Two events in one lane never overlap (CalendarGrid.tsx:148).            *)
LanesApart ==
  \A c \in Columns :
    LET lanes == Packed(c).lanes
    IN \A i, j \in DOMAIN c :
         i < j /\ lanes[i] = lanes[j] => Top(c[i]) + EventHeight <= Top(c[j])

(* A column is no narrower than it must be: it has as many lanes as events *)
(* are on screen at one height (CalendarGrid.tsx:148).                     *)
LanesNeeded ==
  \A c \in Columns :
    LET At(i) == {j \in DOMAIN c : Top(c[j]) <= Top(c[i])
                                   /\ Top(c[i]) < Top(c[j]) + EventHeight}
    IN c # <<>> =>
         Len(Packed(c).ends) = Max({Cardinality(At(i)) : i \in DOMAIN c})

(* Both: overlapping events are drawn side by side, in no more lanes than  *)
(* they need.                                                              *)
LanesFit == LanesApart /\ LanesNeeded

=============================================================================
