-------------------------------- MODULE Views --------------------------------
(***************************************************************************)
(* The views of the client (src/src/m65/view.c): the status window and up  *)
(* to ViewMax - 1 channels or private conversations, one on the screen at  *)
(* a time, each with its scrollback, on function keys that close up when a *)
(* view closes.  The actions are the callers' handlers: lines from the     *)
(* server (ircc.c handle_line, cmd.c cmd_said), slash commands (cmd.c      *)
(* cmd_line) and the session loop's keys (ircc.c session).                 *)
(*                                                                         *)
(* A view's scrollback is the abstract one of Scrollback, which Log        *)
(* implements.  Rows are opaque; a line of text wraps into one to MaxWrap  *)
(* of them, logged one at a time (`saying'), during which nothing else     *)
(* runs: the client has one thread.                                        *)
(***************************************************************************)
EXTENDS Integers, Sequences

CONSTANTS
  ViewMax,    \* slots, the status view included (VIEW_MAX)
  Ring,       \* rows a view keeps (LOG_RING)
  Rows,       \* rows of the chat area (view_rows)
  MaxWrap,    \* rows one line of text can wrap into
  Row,        \* contents of a row
  Blank,      \* a row of spaces
  Name,       \* names of channels and people
  Channel,    \* the names that start with # or &
  Cut,        \* Cut[n]: n cut to VIEW_NAME_CAP - 1 characters
  Fold,       \* Fold[n]: n with its ASCII case folded (same_ci)
  StatusName  \* "status"

ASSUME ViewsAssumption ==
  /\ ViewMax \in Nat \ {0}
  /\ Ring \in Nat
  /\ Rows \in 3..Ring       \* a page of scrolling is Rows - 2
  /\ MaxWrap \in Nat \ {0}
  /\ Blank \notin Row
  /\ Channel \subseteq Name
  /\ Cut \in [Name -> Name]
  /\ \A n \in Name : Cut[n] \in Channel <=> n \in Channel
  /\ DOMAIN Fold = Name
  /\ StatusName \notin Name

VARIABLES
  used,         \* views[v].used
  name,         \* views[v].name
  back,         \* views[v].back: rows scrolled back from the newest
  unread,       \* views[v].unread: the star on the bar
  order,        \* order[p]: the slot on key position p
  positions,    \* positions in use
  view_active,  \* the slot on the screen
  kept,         \* kept[v]: the rows logged for slot v (log.c)
  screen,       \* the chat area, top to bottom
  saying,       \* the view_line in progress, or Silent
  missed        \* ghost: v has rows logged that were not drawn since

layout == <<used, name, order, positions>>
vars == <<used, name, back, unread, order, positions, view_active, kept, screen,
          saying, missed>>

Slot == 0..(ViewMax - 1)
Status == 0
None == ViewMax    \* VIEW_NONE, and any slot number out of range

\* A view_line in progress: the slot, the rows left, and whether the handler
\* closes the view after the line (a PART or KICK of ours).
Line == [v : Slot, left : 0..MaxWrap, close : BOOLEAN]
Silent == [v |-> Status, left |-> 0, close |-> FALSE]
Quiet == saying = Silent

LogOf == INSTANCE Scrollback WITH kept <- kept[Status], page <- screen

-----------------------------------------------------------------------------
(* Looking up *)

\* Mutant: names compared with their case.
NamedExactly(n) == {v \in Slot \ {Status} : used[v] /\ name[v] = n}

\* view_find: the first open slot past the status view with this name, in
\* either case, else None.
Named(n) == {v \in Slot \ {Status} : used[v] /\ Fold[name[v]] = Fold[n]}
Found(n, v) ==
  \/ v = None /\ Named(n) = {}
  \/ v \in Named(n) /\ \A w \in Named(n) : v <= w

\* Mutant: a slot in use is taken as free.
AnySlot == Slot \ {Status}

\* The slot view_open takes, None when every slot is used.
FreeSlots == {v \in Slot \ {Status} : ~used[v]}
FirstFree(v) ==
  \/ v = None /\ FreeSlots = {}
  \/ v \in FreeSlots /\ \A w \in FreeSlots : v <= w

\* Mutant: the position after the last one in use.
view_at_past(pos) == IF pos <= positions THEN order[pos] ELSE None

view_at(pos) == IF pos < positions THEN order[pos] ELSE None

-----------------------------------------------------------------------------
(* What is drawn *)

\* redraw: the newest rows but b at the foot of the area, blank above a short
\* log.
Window(k, b) ==
  LET avail == IF Len(k) > b THEN Len(k) - b ELSE 0
  IN  [p \in 1..Rows |-> IF avail - Rows + p >= 1 THEN k[avail - Rows + p] ELSE Blank]

\* live_row: the area up one row and the row just logged at its foot.
Scrolled(s, k) == [p \in 1..Rows |-> IF p < Rows THEN s[p + 1] ELSE k[Len(k)]]

\* Once view v is redrawn none of it is missed, unless it is scrolled back.
SeenIfAtNewest(m, v) == [m EXCEPT ![v] = m[v] /\ back'[v] # 0]

\* Mutant: the star is left on.
view_show_starred(v, m) ==
  /\ view_active' = v
  /\ UNCHANGED unread
  /\ screen' = Window(kept'[v], back'[v])
  /\ missed' = SeenIfAtNewest(m, v)

\* view_show(v) for an open v, after the caller has set kept' and back'; m is
\* the ghost so far.
view_show(v, m) ==
  /\ view_active' = v
  /\ unread' = [unread EXCEPT ![v] = FALSE]
  /\ screen' = Window(kept'[v], back'[v])
  /\ missed' = SeenIfAtNewest(m, v)

\* view_scroll(rows) on the showing view: clamped so that the oldest row is at
\* the top of the area at most; 0 goes to the newest.
ScrollTo(rows) ==
  LET count == Len(kept[view_active])
      most  == IF count > Rows THEN count - Rows ELSE 0
      to    == IF rows = 0 THEN 0 ELSE back[view_active] + rows
  IN  IF to < 0 THEN 0 ELSE IF to > most THEN most ELSE to

view_scroll(rows) ==
  /\ back' = [back EXCEPT ![view_active] = ScrollTo(rows)]
  /\ screen' = Window(kept[view_active], back'[view_active])
  /\ missed' = SeenIfAtNewest(missed, view_active)

-----------------------------------------------------------------------------
(* Opening and closing *)

\* Mutant: the slot's old scroll position is kept.
view_open_back(n, v, b) ==
  /\ used' = [used EXCEPT ![v] = TRUE]
  /\ name' = [name EXCEPT ![v] = Cut[n]]
  /\ back' = b
  /\ kept' = [kept EXCEPT ![v] = <<>>]
  /\ order' = [order EXCEPT ![positions] = v]
  /\ positions' = positions + 1

\* view_open(n) into free slot v, given the scroll positions b so far.
view_open(n, v, b) ==
  /\ used' = [used EXCEPT ![v] = TRUE]
  /\ name' = [name EXCEPT ![v] = Cut[n]]
  /\ back' = [b EXCEPT ![v] = 0]
  /\ kept' = [kept EXCEPT ![v] = <<>>]
  /\ order' = [order EXCEPT ![positions] = v]
  /\ positions' = positions + 1

\* view_for(n): the view v of that name, opened if need be, None if all the
\* slots are taken.
view_for(n, v, b) ==
  \/ /\ v # None
     /\ Found(n, v)
     /\ back' = b
     /\ UNCHANGED <<layout, kept>>
  \/ /\ Found(n, None)
     /\ v # None
     /\ FirstFree(v)
     /\ view_open(n, v, b)
  \/ /\ Found(n, None)
     /\ FirstFree(None)
     /\ v = None
     /\ back' = b
     /\ UNCHANGED <<layout, kept>>

\* Where slot v sits in the order, from position 1 on: positions if nowhere.
At(v, p) ==
  /\ p \in 1..positions
  /\ p < positions => order[p] = v
  /\ \A q \in 1..(p - 1) : order[q] # v

\* Mutant: the last of the positions after p does not step down.
WithoutButLast(p) ==
  [q \in Slot |-> IF q >= p /\ q + 2 < positions THEN order[q + 1] ELSE order[q]]

\* The order without position p: the ones after it step down.
Without(p) ==
  [q \in Slot |-> IF q >= p /\ q + 1 < positions THEN order[q + 1] ELSE order[q]]

\* view_close(v), given the scroll positions b, the chat area s and the ghost m
\* so far; a call with the status view or an unused slot does nothing.
view_close(v, b, s, m) ==
  /\ back' = b
  /\ UNCHANGED <<name, kept>>
  /\ IF v \in Slot \ {Status} /\ used[v]
       THEN /\ used' = [used EXCEPT ![v] = FALSE]
            /\ \E p \in 1..positions : At(v, p) /\ order' = Without(p)
            /\ positions' = positions - 1
       ELSE UNCHANGED <<used, order, positions>>
  /\ IF v \in Slot \ {Status} /\ used[v] /\ view_active = v
       THEN view_show(Status, m)
       ELSE /\ screen' = s
            /\ missed' = m
            /\ UNCHANGED <<view_active, unread>>

-----------------------------------------------------------------------------
(* Saying a line: view_line *)

\* view_line(v, text) begins: an unknown view is the status view.  Nothing
\* else happens until its rows are logged.
StartLine(v, rows, close) ==
  saying' = [v |-> IF v \in Slot /\ used'[v] THEN v ELSE Status,
             left |-> rows, close |-> close]

\* Mutant: a row is drawn whichever view it is for.
LineRowAnyView(r) ==
  LET v    == saying.v
      live == back[v] = 0
  IN  /\ saying.left > 0
      /\ kept' = [kept EXCEPT ![v] = LogOf!Logged(kept[v], r)]
      /\ screen' = IF live THEN Scrolled(screen, kept'[v]) ELSE screen
      /\ missed' = [missed EXCEPT ![v] = @ \/ ~live]
      /\ unread' = IF saying.left = 1 /\ v # view_active
                     THEN [unread EXCEPT ![v] = TRUE] ELSE unread
      /\ saying' = IF saying.left = 1 /\ ~saying.close
                     THEN Silent ELSE [saying EXCEPT !.left = @ - 1]
      /\ UNCHANGED <<layout, back, view_active>>

\* One row of the line logged, and drawn at once if its view is showing at the
\* newest; after the last, a view not showing is starred.
LineRow(r) ==
  LET v    == saying.v
      live == v = view_active /\ back[v] = 0
  IN  /\ saying.left > 0
      /\ kept' = [kept EXCEPT ![v] = LogOf!Logged(kept[v], r)]
      /\ screen' = IF live THEN Scrolled(screen, kept'[v]) ELSE screen
      /\ missed' = [missed EXCEPT ![v] = @ \/ ~live]
      /\ unread' = IF saying.left = 1 /\ v # view_active
                     THEN [unread EXCEPT ![v] = TRUE] ELSE unread
      /\ saying' = IF saying.left = 1 /\ ~saying.close
                     THEN Silent ELSE [saying EXCEPT !.left = @ - 1]
      /\ UNCHANGED <<layout, back, view_active>>

\* The handler of our own PART or KICK goes on to close the view it spoke in.
LineClose ==
  /\ saying.left = 0
  /\ saying.close
  /\ view_close(saying.v, back, screen, missed)
  /\ saying' = Silent

-----------------------------------------------------------------------------
(* Lines from the server *)

\* Any line said in a view: a message, a notice, a reply to a command.
Say(v, rows) ==
  /\ Quiet
  /\ UNCHANGED <<layout, back, unread, view_active, kept, screen, missed>>
  /\ StartLine(v, rows, FALSE)

\* cmd_said: a person's first private message opens their view, which is not
\* shown; with no slot free it goes to the status view.  A CTCP request opens
\* the view too and says nothing there (rows = 0).
PrivateMessage(who, rows) ==
  /\ Quiet
  /\ \E v \in Slot \cup {None} :
       /\ view_for(who, v, back)
       /\ IF ~ Found(who, v) /\ v # None
            THEN /\ unread' = [unread EXCEPT ![v] = FALSE]
                 /\ missed' = [missed EXCEPT ![v] = FALSE]
            ELSE UNCHANGED <<unread, missed>>
       /\ IF rows = 0 THEN UNCHANGED saying ELSE StartLine(v, rows, FALSE)
  /\ UNCHANGED <<view_active, screen>>

\* Our own JOIN: the channel's view opened if need be and shown; told there, or
\* in the status view if there is no room.
JoinEcho(chan, rows) ==
  /\ Quiet
  /\ \E v \in Slot \cup {None} :
       /\ view_for(chan, v, back)
       /\ IF v # None THEN view_show(v, missed)
                      ELSE UNCHANGED <<view_active, unread, screen, missed>>
       /\ StartLine(v, rows, FALSE)

\* Our own PART or KICK: told in the channel's view, or in the status view when
\* it has none, and that view closed.
PartEcho(chan, rows) ==
  /\ Quiet
  /\ UNCHANGED <<layout, back, unread, view_active, kept, screen, missed>>
  /\ \E v \in Slot \cup {None} : Found(chan, v) /\ StartLine(v, rows, TRUE)

-----------------------------------------------------------------------------
(* What is typed: RETURN first brings the showing view to its newest row *)

AtNewest == [back EXCEPT ![view_active] = 0]
SeenNow == [missed EXCEPT ![view_active] = FALSE]
NewestRows == Window(kept[view_active], 0)

\* /join and /query: into the view, opened if need be; a note when none is
\* free.
TypedOpen(n, rows) ==
  /\ Quiet
  /\ \E v \in Slot \cup {None} :
       /\ view_for(n, v, AtNewest)
       /\ IF v # None
            THEN view_show(v, SeenNow) /\ UNCHANGED saying
            ELSE /\ screen' = NewestRows
                 /\ missed' = SeenNow
                 /\ UNCHANGED <<view_active, unread>>
                 /\ StartLine(view_active, rows, FALSE)

\* /part of a channel, named or showing: its view closes at once, before the
\* server's echo.
TypedPart(chan) ==
  /\ Quiet
  /\ \E v \in Slot \cup {None} :
       Found(chan, v) /\ view_close(v, AtNewest, NewestRows, SeenNow)
  /\ UNCHANGED saying

\* /close ends a private view; in the status view or a channel, a note.
TypedClose(rows) ==
  /\ Quiet
  /\ IF view_active # Status /\ name[view_active] \notin Channel
       THEN /\ view_close(view_active, AtNewest, NewestRows, SeenNow)
            /\ UNCHANGED saying
       ELSE /\ back' = AtNewest
            /\ screen' = NewestRows
            /\ missed' = SeenNow
            /\ UNCHANGED <<layout, unread, view_active, kept>>
            /\ StartLine(view_active, rows, FALSE)

\* /clear: the showing view's scrollback emptied.
TypedClear ==
  /\ Quiet
  /\ back' = AtNewest
  /\ kept' = [kept EXCEPT ![view_active] = <<>>]
  /\ view_show(view_active, SeenNow)
  /\ UNCHANGED <<layout, saying>>

\* Any other line typed: the RETURN, then a line said.
TypedLine(v, rows) ==
  /\ Quiet
  /\ back' = AtNewest
  /\ screen' = NewestRows
  /\ missed' = SeenNow
  /\ UNCHANGED <<layout, unread, view_active, kept>>
  /\ StartLine(v, rows, FALSE)

-----------------------------------------------------------------------------
(* The session loop's keys and events *)

\* A function key shows the view on its position, if there is one.
FunctionKey(pos) ==
  /\ Quiet
  /\ view_at(pos) # None
  /\ UNCHANGED <<layout, back, kept, saying>>
  /\ view_show(view_at(pos), missed)

\* join_all, once registered: as /join, but whatever is showing stays as it is
\* scrolled.
AutoJoin(chan, rows) ==
  /\ Quiet
  /\ \E v \in Slot \cup {None} :
       /\ view_for(chan, v, back)
       /\ IF v # None
            THEN view_show(v, missed) /\ UNCHANGED saying
            ELSE /\ UNCHANGED <<view_active, unread, screen, missed>>
                 /\ StartLine(view_active, rows, FALSE)

\* F9 and F11 scroll a page back and forward, HOME to the newest.
Scroll(rows) ==
  /\ Quiet
  /\ view_scroll(rows)
  /\ UNCHANGED <<layout, unread, view_active, kept, saying>>

\* MEGA-F repaints the showing view, a dead link shows the status view.
ShowAgain(v) ==
  /\ Quiet
  /\ UNCHANGED <<layout, back, kept, saying>>
  /\ view_show(v, missed)

\* The session is left and another begun: view_init.
view_init ==
  /\ Quiet
  /\ used' = [v \in Slot |-> v = Status]
  /\ name' = [name EXCEPT ![Status] = StatusName]
  /\ kept' = [v \in Slot |-> <<>>]
  /\ order' = [order EXCEPT ![0] = Status]
  /\ positions' = 1
  /\ UNCHANGED <<back, saying>>
  /\ view_show(Status, [v \in Slot |-> FALSE])

-----------------------------------------------------------------------------
\* The page is cleared at start-up (main), then the first view_init.
Init ==
  /\ used = [v \in Slot |-> v = Status]
  /\ name = [v \in Slot |-> StatusName]
  /\ back = [v \in Slot |-> 0]
  /\ unread = [v \in Slot |-> FALSE]
  /\ order = [p \in Slot |-> Status]
  /\ positions = 1
  /\ view_active = Status
  /\ kept = [v \in Slot |-> <<>>]
  /\ screen = [p \in 1..Rows |-> Blank]
  /\ saying = Silent
  /\ missed = [v \in Slot |-> FALSE]

Server ==
  \/ \E who \in Name \ Channel, rows \in 0..MaxWrap : PrivateMessage(who, rows)
  \/ \E rows \in 1..MaxWrap :
       \/ \E v \in Slot \cup {None} : Say(v, rows)
       \/ \E chan \in Channel : JoinEcho(chan, rows) \/ PartEcho(chan, rows)

User ==
  \/ \E rows \in 1..MaxWrap :
       \/ \E n \in Name : TypedOpen(n, rows)
       \/ \E chan \in Channel : AutoJoin(chan, rows)
       \/ TypedClose(rows)
       \/ \E v \in Slot : TypedLine(v, rows)
  \/ \E chan \in Channel : TypedPart(chan)
  \/ TypedClear
  \/ \E pos \in Slot : FunctionKey(pos)
  \/ \E rows \in {Rows - 2, 2 - Rows, 0} : Scroll(rows)
  \/ \E v \in {Status, view_active} : ShowAgain(v)
  \/ view_init

Saying == (\E r \in Row : LineRow(r)) \/ LineClose

Next == Server \/ User \/ Saying

Spec == Init /\ [][Next]_vars

-----------------------------------------------------------------------------
(* What the views promise *)

\* The types: every scroll position, log and star of every slot.
TypeOK ==
  /\ used \in [Slot -> BOOLEAN]
  /\ name \in [Slot -> Name \cup {StatusName}]
  /\ back \in [Slot -> Nat]
  /\ unread \in [Slot -> BOOLEAN]
  /\ order \in [Slot -> Slot]
  /\ positions \in 1..ViewMax
  /\ view_active \in Slot
  /\ kept \in [Slot -> Seq(Row)]
  /\ \A v \in Slot : Len(kept[v]) <= Ring
  /\ screen \in [1..Rows -> Row \cup {Blank}]
  /\ saying \in Line
  /\ missed \in [Slot -> BOOLEAN]

\* The function keys never skip and never point at a closed view: the
\* positions in use hold exactly the open slots, each once, the status view
\* first, whatever order views open and close in (view.c, 5.29).
KeysAreTheOpenViews ==
  /\ order[0] = Status
  /\ \A p, q \in 0..(positions - 1) : order[p] = order[q] => p = q
  /\ \A v \in Slot : used[v] <=> \E p \in 0..(positions - 1) : order[p] = v

\* The view on the screen, and the view a line is being written to, are open.
ShowingIsOpen == used[view_active] /\ used[saying.v]

\* What view_line draws row by row is what a redraw from the log would draw,
\* for a view that is not scrolled back: no switch, scroll, close or wrap of
\* the ring leaves a stale or a doubled row on the screen.
LiveIsRedraw == back[view_active] = 0 => screen = Window(kept[view_active], 0)

\* A channel's or a person's view is never scrolled past its oldest row.
ChannelScrollWithinLog ==
  \A v \in Slot \ {Status} :
    used[v] => back[v] <= (IF Len(kept[v]) > Rows THEN Len(kept[v]) - Rows ELSE 0)

\* Between lines, an open view at its newest row is starred on the bar exactly
\* when rows came to it that have not been on the screen.
StarredIffMissed ==
  Quiet => \A v \in Slot : used[v] /\ back[v] = 0 => (unread[v] <=> missed[v])

\* "The channel view for a name, opened if need be" (ircc.c, view_for): no two
\* open views have one name.
OneViewPerName ==
  \A u, v \in Slot \ {Status} :
    used[u] /\ used[v] /\ Fold[name[u]] = Fold[name[v]] => u = v

\* "a view switch and a scroll are the same redraw", "the oldest row at the top
\* of the area, no further" (view.c): of the status view too.
ScrollWithinLog ==
  \A v \in Slot :
    used[v] => back[v] <= (IF Len(kept[v]) > Rows THEN Len(kept[v]) - Rows ELSE 0)
=============================================================================
