# A verification of the MEGA65 IRC client

TLA+ models of the IRC client in this repository (`src/src`), small instances of
them checked with TLC, and theorems proved with TLAPS. Paths
below are relative to `src/src` unless they start with a file at the root of the
repository (`MANUAL.md`, `LLM.md`).

    tlc -config MCViewsScreen.cfg MCViews      # any run: see "The runs"
    tlapm ViewsProofs.tla                      # the proofs, as are
                                               # AtticProofs, ConnProofs, ConnTalkProofs,
                                               # SessionProofs, MarksProofs,
                                               # CertificateProofs and ChainProofs

## 1. The system

The client is one thread on a MEGA65: a loop that polls the network, the frame
counter and the keyboard, with callbacks from the TLS engine and from the line
reader. Nothing pre-empts anything; what interleaves is the client with the
server, the network and the user, at each poll.

| part | state it keeps | operations | talks to |
|---|---|---|---|
| views (`m65/view.c`) | slot table, order of the function keys, what is showing, scroll positions, stars | open, close, find, say a line, show, scroll | log, screen |
| scrollback (`m65/log.c`) | per view: two 16-bit counts, a ring of rows in attic RAM | row, clear, draw | views |
| commands (`m65/cmd.c`) | the ignore list, in the attic | `/join` ... `/clear`, private messages, CTCP | views, session |
| line reader and editor (`ircc.c`, `irc.c`, `ui.c`) | half a line, what is being typed, the lines sent, in the attic | bytes in, parse, edit, recall, prompt | session, commands |
| TLS engine (`tls/tls.c`) | connection state, record and message being read, out buffer | start, in, write, close, verify | kit, connection (callbacks) |
| TLS kit (`bank/api.c`, `m65/tlskit_m65.c`) | traffic keys and record numbers, one Poly1305 table, the bank's certificates | seal, open in pieces, verify | engine |
| connection (`m65/conn.c`) | the engine, why the last one failed, whether to retry | open, pump, send, close, abort | mega-net, engine, chain |
| IRC session (`ircc.c`) | nick, registration, login, joined, idle time, half a line | dial, redial, answer the server, keys | connection, views |
| certificate chain (`tls/chain.c`, `tls/policy.c`, `tls/der.c`, `tls/x509.c`, `bank/`) | the store of certificates | append, check a chain against the roots | engine, connection, clock |
| clock (`clock.c`) | the real-time clock chip | read, or refuse | chain |
| bookmarks (`m65/marks.c`) | `IRC.CFG` and its lines | load, add, remove | disk |
| disk (`platform/m65_cbmdos.c`, `m65_f011.c`) | BAM, directory, sector chains | create, delete, load, read | bookmarks, the bank loader |
| cryptography (`crypto/`) | none | hashes, ciphers, curves, RSA | kit |

A byte's way in is: mega-net -> `conn_pump` -> `tls_in` -> `on_data` -> `on_bytes`
(line buffer) -> `handle_line` -> `cmd_said`/`view_line` -> `log_row` and the
screen. A key's way out is: `session` -> `typed_line` -> `cmd_line` -> `send3` ->
`conn_send` -> `tls_write` -> `push_out` -> mega-net.

### What is hard in it

- **Data before its proof.** `on_data` hands plaintext to the client before the
  record's tag is checked (a choice `conn.c` states), in pieces a delivery cuts
  anywhere, with one Poly1305 table shared by the record being read and the ones
  being sealed.
- **Keys that switch in the middle of a stream**, for writing at the server's
  Finished, for reading at the end of the record that held it; and a flight whose
  messages may come in any order, over a structure used again by the next
  connection.
- **Waits.** Each has a bound or a key or neither; the other side may answer late,
  never, or stop reading.
- **A link that dies silently**, and a session that goes on over the next one:
  what must be reset (half a line, `joined`, `sasl_ok`, `registered`) and what
  must not (the nick, the views).
- **Registration as a conversation** in which the server waits for `CAP END`.
- **A screen drawn incrementally**, from a ring that wraps, for a view that can be
  switched, scrolled, closed or emptied between any two lines; and slots used
  again by other views.
- **One attic for several tenants**: the rows of a view, the lines sent and the
  ignore list lie side by side, under counts of sixteen and of eight bits.
- **Certificates read twice**, by two walkers with different bounds, out of a
  store that is cut when full; and arithmetic that the tests run in another width
  than the machine does.
- **A disk without a journal**, with files rewritten by delete and create.

`PROJECT.json` has each hazard at its line.

### What makes each part correct

- *views*: the function keys are exactly the open views; the screen is what the
  log would redraw; stars tell what was not seen; scrolling stays within the log;
  one view per name.
- *attic*: the newest rows in order, through every wrap; the cursor keys recall
  what was sent; those are silent whom the user was told are ignored.
- *reader, editor, commands*: a line is read as it was said however it is cut, and
  what is sent is what was typed, to whom it was meant, as far as there is room.
- *TLS engine and connection*: both sides' keys and record numbers stay in step;
  nothing is sent or shown before the server is proven; lines arrive as said; an
  honest server is never failed; every wait ends.
- *session*: registration goes through; identified once; each channel joined once
  per connection, or the user told why not; client and server agree on the nick; a
  dead link is found and a live one kept; every wait ends; RUN/STOP is final; no line
  is made of two connections' bytes.
- *chain*: accepts exactly the chains its policy describes, and never a damaged one.
- *arithmetic*: a signature, a secret and a product are what number theory says.
- *bookmarks and disk*: the map of free blocks is what the chains use; a file that
  was written is there; a failure loses no other file.

## 2. The modules

### Scrollback, Attic (`m65/log.c`, and what lies beside its rows)

`Scrollback` is the promise: a bounded sequence of rows and pages drawn from it.
`Attic` is the code, with the memory it runs in: `total` (16 bits, `CountMod`),
`have`, the ring, and `log_row`, `log_clear`, `log_draw` with the same wrapping
arithmetic; above the ring, with nothing between, the lines sent (`hist_add` and
`hist_recall` of `ircc.c`, under an eight-bit count) and the ignore list of
`m65/cmd.c`. All three are one function `mem` from addresses, so a tenant that
ran over its end would meet the next. `KeepsTheNewestRows` is `Scrollback!Spec`
under the mapping of the ring to the sequence it stands for. The other views have
a megabyte each and behave as the first does. A name is opaque: `folded` is how
`same_ci` compares it and `stored` as much of it as an entry holds.

### Views (`m65/view.c`, and its callers in `ircc.c` and `m65/cmd.c`)

Variables are the fields of `views[]`, `order`, `positions`, `view_active`, each
view's rows (as `Scrollback` keeps them) and the chat area. An action is a whole
handler: what a line from the server does (`Say`, `PrivateMessage`, `JoinEcho`,
`PartEcho`), what the user types (`TypedOpen` for `/join` and `/query`,
`TypedPart`, `TypedClose`, `TypedClear`, `TypedLine`; each begins with the
`view_scroll(0)` of RETURN), the keys (`FunctionKey`, `Scroll`, `ShowAgain`), the
joins at registration (`AutoJoin`) and the start of a session (`view_init`). A line
of text wraps into several rows that are logged and drawn one by one
(`saying`, `LineRow`, `LineClose`). Rows, names and their case are opaque
(`Row`, `Name`, `Fold`, `Cut`). `missed` is a ghost: rows that came to a view and
have not been on the screen.

### TlsEngine (`tls/tls.c`, with the keys of `bank/api.c`)

One operator per function of the engine. Bytes are abstracted to a record's
header, its items and its end; an item is a part of a handshake message (header,
body), a piece of application data, or an alert. A delivery that ends anywhere is
an action that does not happen yet. Cryptography is ideal: a record opens under
the key and number it was sealed with. `mac` is Poly1305's multiplier table, which
the reader prepares at a record's start and must prepare again if something was
sealed in between. `kept` is a ghost: how much of what was handed to the client
had its tag checked.

### Conn (`m65/conn.c`)

`Conn` extends `TlsEngine` with `conn_open`'s pump, verification and chain check,
`conn_send`, `conn_close` and `conn_abort`, a socket that is lost at any time
(`Drop`) or takes no bytes (`WindowShuts`), and a server. The C program's position
is `conn` (`Phases`). The server side and the socket are outside this repository
and modelled from what `tls.c` and `conn.c` do with them: a TLS 1.3 server that
sends a ServerHello, a flight cut into records at will, tickets, lines, alerts, and
checks each record of the client's; `Flights` and `Faults` make it a wrong one.

### Session (`ircc.c`)

The states of `session` and `connect_and_register` (`Places`), the pass of the
loop in its order (`Pump`, `Join`, `Check`, `Key`), `handle_line`'s answers (`Reply`,
`NickAfter`, `ViewsAfter`), the reconnection (`Redial`, `Minute`), RUN/STOP. The
connection is what `Conn` provides: bytes in order until it is lost. Lines are
messages; time is ticks, the limits of 150 and 300 seconds (`IDLE_PING_S`, `DEAD_S`)
being `PingAfter` and `DeadAfter` of them. The server holds registration from `CAP LS`
to `CAP END`, as IRCv3 servers do, and refuses a nick it does not take with 432 and
one in use with 433.

- A nick is the sequence of its characters: what the server tells is kept up to
  `NickCap` of them (`Kept`), and a nick in use is tried again with a digit behind it
  or, when there is no room for one, with its last character's successor (`Retried`),
  a NUL after 255. `NickChars` are those a server takes.
- `views` are the channels and people that have a view. `Join` is one turn of
  `join_all`: with a view for the channel, had or opened, JOIN is sent; with none
  free the user is told (`refused`) and nothing is sent. A person's first message and
  `/query` open views, `/close` and a kick free them, and a reconnection leaves them.
- A send while the window is shut leaves the client in `push_out` (`spinning`), from
  where it takes no other step until the window opens or the link is lost
  (`PushedOut`). `Stall` shuts the window and `Resume` opens it, which nothing makes
  it do.
- `stopped` is RUN/STOP read, wherever a key is: in the handshake, a pause, the minute
  after a failed reconnect, the loop. `quitting` is the code's, which only the first
  two and `/quit` set.

### Disk (`platform/m65_cbmdos.c` over `m65_f011.c`)

The disk is what is on it (`data`, `dir`, and `map`, the two BAM sectors) and the
driver is what it holds in memory: `bam`, the file being made, and `at`, the block
to be written next. What an operation reads before it first writes is one step;
every block written is a step of its own, and after any of them a write may have
failed, with the block changed or not, or the power gone (`Trouble`, `Crash`). The
six tries of `f011_read_sector` are one read that fails or does not. A block is
written whole: that a failed write may spoil the other half of its physical
sector is not modelled. Blocks are numbered in the order `bam_find` tries them;
the 254 bytes that fill one are an item. `Chain` follows links for at most as many
blocks as there are (a `Walk`, a recursive function). The disk it finds is one of
`Formats`, each as formatting and closed files leave a disk (`Sound`, an
assumption): every chain has an end, no block is in two files, none in use is free,
and a free block of the directory's track is empty. What a free data block still
links to and holds is anything.

### Marks (`m65/marks.c`, and the first screen of `ircc.c`)

`Marks` extends `Disk`, and makes every write of a bookmark out of its actions:
`cbmdos_delete`, whose result is not looked at, `cbmdos_create`, the puts and
`cbmdos_close`, with a `Reset` between or inside any two. `text` is the file's
lines in memory, the magic line first; a file longer than `MARKS_CAP` counts as
none, and an addition that would be is not begun (`put_field`). `marks_count` is the
code's: counted when a file is read and when an addition is taken back, and moved by
one otherwise, so that after a removal from a file with more entries than the screen
has room for it is one less than would be counted. Lines are of one length here: our own
entries, of 153 bytes at most, leave the 2048 bytes of the code room for all eight, and
a foreign file whose long ones do not is a `MARKS_CAP` below what the screen holds. The
run has a `MARKS_CAP` above it, for a file with an entry that is not shown, so that there
`put_field` never refuses; the theorems are about any. The client writes no other file. `torn` is a
ghost: a fault came between the directory's write and the map's, the place where
the code has no defence and an entry is left in free blocks.

### Der, Chain, Certificates (`tls/der.c`, `x509.c`, `chain.c`, `policy.c`, `clock.c`, `bank/`)

`Der` is both walkers over the bytes of a file: `der_elem`, `der_tbs_field`,
`chain_split`, `chain_parts`, and `x509_key_of` with its own `element`. `Chain` is
the check: the clock (`read_clock`), dates (`time12`, `NotAfter`), names
(`dns_matches`, `chain_host_matches`), the links and the anchor, and the store
with its limits. `Certificates` is the other side, an authority that encodes a
certificate of given parts: lengths in one, two or three bytes, dates as UTCTime
or GeneralizedTime, the alternative names first, after another extension, critical
or absent. A signature is ideal here: it verifies when the authority made it
(`Signed`, the signatures of `Answers`' `Issued`). Object identifiers and keys are
a few bytes; tags, lengths and offsets are real. A walk over elements is a
recursive function on offsets (`Along`, under `Walk`): where each element leads.

### Limbs, Mp, Pss, X25519 (`crypto/mp.c`, `pkcs1.c`, `rsa.c`, `curve25519.c`)

The arithmetic digit by digit, with the width of a digit, the number of digits and
the modulus as constants: the code does not depend on them but for the numbers it
holds. `Row` is the one loop (add, subtract, multiply and add, each with a carry);
`Mp` has both Montgomery multiplications, the 32-bit one of the machine and the
16-bit one the tests run, `mp_init`'s two inverses and its R squared, the exponent
and PKCS #1; `Pss` what a server's signature opens to; `X25519` the field with its
two folds and the ladder.

### Lines (`ircc.c`, `irc.c`, `ui.c`, `m65/cmd.c`)

`on_bytes` and `irc_parse`, `irc_ctcp`; the editor, a prompt, a password, which the
first RETURN or RUN/STOP ends, no key behind it being read; the two tables of the
slash commands and the line each sends. A text is a sequence of characters, a verb
being one. What is sent depends on the views: a JOIN on there being one for the
channel, the text of `/query` on the name it was opened under, which may be cut or in
another case (`view_for`, over the names stored).

### Answers, Meant

`Answers` calls all of these: a step asks a question out of a set, a step
gives the code's answer. What comes to the certificates is what the engine
stored (`Store`: cut at `CERT_CAP`, and with any one byte of it set to any value).
`Meant` says what the answer is to be, without bytes,
limbs or offsets: certificates as records, numbers as numbers, lines as their
parts, a cursor as what stands on its two sides. Of chains it says two things.
`ChainIsProven` compares with the chain that was sent, answer by answer.
`OnlyTheIssued` is the promise that needs no chain to compare with, and holds
whatever came in: it looks in the stored bytes for what the authorities wrote
(`Held`, in date) and for the keys these hand down from an anchor (`Trusted`).

### MC modules and proofs

`MCAttic`, `MCViews`, `MCConn`, `MCSession`, `MCMarks`, `MCAnswers` give the constants their values.
`AtticProofs`, `ViewsProofs`, `ConnProofs`, `ConnTalkProofs`, `SessionProofs`,
`MarksProofs`, `CertificateProofs` (the walkers and what an authority wrote) and
`ChainProofs` (the check, over `Meant`) have the theorems.

## 3. The runs

| run | asks | bounds |
|---|---|---|
| `attic` | is the ring a `Scrollback`? do the cursor keys recall the lines sent? are those silent whom the user was told are ignored? | ring 2, history 2, ignore list 2, counts modulo 4, so that every count wraps and every tenant is full; two rows, two lines, four names: a pair equal but for case, one too long for an entry whose first bytes are another's |
| `views_order` | keys, showing, one view per name | four slots, five names, one pair equal but for case; rows, stars and scrolling are left out of the state by `VIEW OpenViews`, which the layout does not depend on |
| `views_screen` | live drawing, scrolling, stars | status and one other slot, a channel and a person for it; ring of 4 over an area of 3 rows, lines of up to 2 rows, so rings overflow and pages scroll; two contents, interchangeable (symmetry) |
| `views_scroll` | violated, see findings | as `views_screen` |
| `conn_honest` | keys in step, server opens all, nothing fails; `conn_open` ends | every cut of flights of six and eight items into records, one of them asking for a certificate; a server that stops and resumes reading, or refuses; lines, tickets and a close; two lines out |
| `conn_faults` | nothing before proof, lines as said, types | eleven flights that are right, wrong, incomplete, out of order or malformed; one damaged record; two connections, so that what the first leaves behind meets the second |
| `conn_ticket` | violated, see findings | one ticket |
| `session_core` | registration, login, nick, joins, glue, RUN/STOP, live link kept, dead link found | two dials, of one session or of two; two channels and one person for one view; nicks of three characters, of which those in use lead to one with a digit on the end and to one no server takes, and a free one and a longer one typed; any answer to the login of 903 to 907, one line typed, one line unasked; the link lost, silent or stalled |
| `marks` | no block shared, none lost without a fault; saved means in the file; the list is the file's; other files survive | five blocks for data, one entry to a directory block and three blocks for the directory, so that it is extended and then full; the program, two more files and `IRC.CFG`, absent, foreign, longer than the memory for it, or with too little room for two entries; free blocks that link into the program; two entries on the screen and four lines in memory, so that a file may have an entry that is not shown; three faults anywhere, resets between calls as well |
| `answers` | what each computation gives against what it is to be | 14,403 chains: names of one to four labels and wildcards anywhere, dates on both sides of the clock to the second, chains of one to four certificates of every kind of key where three and 420 bytes are kept, and six chains with one byte set to each of nine values; three moduli of eight bits, every signature and hash; every padding of seven two-bit bytes that ends right or is nearly so; scalars and points of a field of 31, every product in fields of 31 and of 29; streams cut at every byte, lines up to and over the buffer; every command with every part there or not in every kind of view, names and passwords over their room, with views free or not; four keys in the editor and the prompts, RETURN and RUN/STOP among them |
| `session_early`, `session_refused` | violated, see findings | one dial |

Why these are enough: two dials are a first connection and one made again after it
was lost, or a session after a session; two slots are enough for any relation
between a view and the one showing, four for an order with a middle; one damaged
record and one lost link suffice because after either the engine reads no more;
and two records in each direction after the handshake number a key's records 0
and 1, which tells a missing increment or reset.

The arithmetic's small widths are where its rare cases are common: of the products
in the field of 29 some carry out of the second fold, of the signatures some leave
a limb above the modulus, which in the real widths no vector does. 29 and 31 are
the primes below 2^5 by more and by less of a fold.

The bounds are constants of the modules: `MaxOpens`, `MaxReplies`, `MaxLines`,
`MaxFaults` (in `Conn` and `Disk`), `OutMax` (the out buffer, in records), `MaxDials`, `MaxTyped`,
`MaxSaid`, `Ring`, `CountMod`, `HIST_MAX`, `HistMod`, `IGNORE_MAX`, `MaxWrap`. Because the dials are bounded, and because
a user may stay on the first screen for ever, `Conn` and `Session` are checked with
`CHECK_DEADLOCK FALSE`; that they do not hang is `PumpEnds`, `DeadLinkFound` and
`RegistrationGoesThrough`.

### Fairness

- `Conn`: `WF(Client)`, since the one thread goes on while it can; `SF(PushOut)`,
  since the loop offers the bytes again each time round and the window may open
  and shut; `SF(PumpGivesUp)`, since thirty seconds on the frame counter without
  a delivery do pass in the end. `TakingSpec` adds `WF(WindowOpens)`, a server that goes on
  reading: without it `push_out` waits for ever (section 5).
- `Session`: `WF(Loop)`, where it is not in `push_out` the loop goes round;
  `SF(Ticks)`, the frame counter is hardware. A client in `push_out` has a step only
  when the window has opened or the link is lost, and nothing makes either happen: of
  the user, the server and the network nothing is assumed. `DeadLinkFound` therefore
  says less than one would wish: a link that is lost is found, always, and a silent
  one is found unless the client is in `push_out` before that, which is where it may
  stay (section 5).
- With `Prompt = TRUE` a tick does not pass while a server that is not silent has
  something on the wire, a tick being 150 seconds, and its window shuts only when it
  is silent. It is what makes `LiveLinkKept` meaningful, a server slower than
  `DEAD_S - IDLE_PING_S` being given up by design. The runs have it so, since with a
  server that never reads what is under way has no bound; the theorems hold either
  way.

## 4. What is proved

`ViewsProofs`, for every number of slots, ring, area, wrap and set of names and
rows, from `ViewsAssumption` (among which: an area of three rows or more, and no
more of them than the ring has):

| theorem | says |
|---|---|
| `TypeCorrect` | `Spec => []TypeOK` |
| `KeysNeverSkip` | the positions in use hold exactly the open views, each once |
| `ScreenIsTheLog` | the chat area of a view at its newest row is the window on its log |
| `ShowingStaysOpen` | the view showing, and the one being written to, are open |
| `StarsAreRight` | a view is starred exactly when it has rows that were not on the screen |

The argument is one inductive invariant, `IInv`: the types, the layout of the
slot table (`KeysAreTheOpenViews`), `ShowingIsOpen`, `LiveIsRedraw`, and `Stars`,
which strengthens `StarredIffMissed` (that speaks only between lines) to hold in
the middle of a line: the view being written to may be missed and not yet
starred, no other, and the view showing is never starred. None of the parts is
inductive alone: a line drawn live is right only because the view it is for is
showing and open (`ShowingIsOpen`), which closing keeps only because the order and
the slot table agree; a star is right only because a live row was really drawn.
The lemmas are in this order: pure ones (`WindowType`, `LoggedType`,
`LiveRowIsRedraw`: the area moved up one row with the new row at its foot is the
window on the longer log, ring full or not), the slot table (`OpenKeepsLayout`,
`CloseKeepsLayout`, with `RoomForAKey`: a free slot means a free position), the
effect of each of view.c's functions, and one lemma per action.

From the same assumption and invariant:

| theorem | says |
|---|---|
| `ChannelsStayWithinTheirLogs` | a channel's or a person's view is never scrolled past its oldest row |
| `NamesAreUnique` | no two open views have one name, if no name changes, case apart, when it is cut to a slot (an assumption of the theorem: the code breaks it otherwise, section 5) |

Both look at one slot that is open after a step: `ScrollSteady` says that a step
leaves its scroll position at the newest row, or within the log it leaves, or
alone over a log that has not got shorter; `NamesSteady` that a step opens
nothing. Only `view_for` opens, and only what `view_find` did not find.

`ConnProofs`, for every server (whatever its hello, its flight, how it cuts it into
records and what it replies), every damage to records, any number of connections and
lines, any out buffer of at least one record, from `OutAssumption` and
`ConnAssumption`:

| theorem | says |
|---|---|
| `ConnTypesHold` | `Spec => []TypeOK`: among it, the out buffer keeps its bound, and sealing never finds it full |
| `ClientRecordsOpen` | the server opens every record of the client's, under the key and number it is at |

A queue of records is a way from one place (a key and the next number) to another,
each record a step: `Way`, which a record appended lengthens at one end and a record
read shortens at the other (`WayAppend`, `WayTail`, `WayOn`). The invariant is
`EngineTypes /\ ServerTypes /\ ConnTypes /\ Keys /\ Sending`. `Keys` says which keys
are up in which state, and in which state a ServerHello or a Finished may be half
read: without it a second ServerHello could bring the write key back to the
handshake's. `Sending` says that what the client sent and the server has not heard,
and then what is queued, is a way from where the server reads to where the client
seals; before the server has keys, that there is the ClientHello, queued, sent or
heard, and nothing of the server's by which the client could have got keys
(`Greeting`). Each step of the engine is first reduced to what it changes
(`FeedEffect`, `ContentEffect`, `EndEffect`): nothing, or the ServerHello taken, or the
Finished taken.

For the other direction there is one more assumption: a flight's last
message is its Finished, and it has no other, as in TLS 1.3 and in every flight
of `conn_honest`. A server that went on under its handshake key after its Finished,
or sent none, would be out of step with any client.

| theorem | says |
|---|---|
| `ServerRecordsOpen` | the client opens every record of the server's under the key and number it was sealed under: through the switch that `record_end` makes at the Finished, however the flight is cut into records and they into deliveries |
| `ProofFirst` | no line goes out, nothing is handed to the client and no connection is open until the server's signature, its Finished and its chain have been checked |

A place now also has what is left of the server's flight, and a record is one of five
steps from place to place (`HelloRead`, `ClearRead`, `FlightRead`, `RefusalRead`,
`ReplyRead`). The invariant is `RInv == CInv /\ Serving /\ Finishing /\ Arriving /\
KeysInStep`. `Arriving` says that what is left of the record being read, and then the
wire, is a way from where the client reads to where the server seals; and, as `Tied`,
what is left of the flight given what the client has begun: a Finished whose header was
read is the last half left, and when it is taken nothing is left, but the end of its
record. `Finishing` says that the client's Finished comes after the server's, and that
after the whole flight: without it a server could hear a Finished and answer under
its handshake key.

`ProofFirst` assumes more of a flight (`Proper`): it is whole messages, what is wrong
with one is a signature, the Finished or the form of a message that is looked into,
and no signature follows a wrong one. The flights of `conn_faults` that go on after
their Finished, or have none, are outside both theorems and stay with that run. What
makes the proof hard is that the client decides at the end on what it kept on the
way: `cv_seen` and the message in its buffer. `Heard` says so at each place: what is
left of the flight, with what came of it (`msg_type`, `cv_seen`, `msg`), can come to be
a proof (`Proving`) only if the server proved itself. It holds where the ServerHello
is taken (`HelloRead`), and is carried over each message begun and ended (`HeardOn`,
`ProperTail`, `ProvingTail`). The invariant is `NInv == RInv /\ Waiting /\ Trusting`:
`Waiting` says that nothing was handed over, and no line sealed, before the
connection is open, and `Trusting` that it is open only to a server that proved
itself over a chain that will do.

`ConnTalkProofs`, of what the client is handed and what becomes of a connection to a
server that does all it should:

| theorem | says | assuming |
|---|---|---|
| `LinesKept` | the lines the client keeps are the first ones the server said: none lost, repeated, out of order or damaged | `OutAssumption` and `ConnAssumption` only |
| `HonestUnfailed` | with an honest server, over a wire that damages nothing, the engine never reaches `TLS_FAILED` | as `ServerRecordsOpen` does, and that the flight of a server that proves itself is `Standard` |

For `LinesKept` the place of a reader is how many lines have been said. A record
carries one line, the next, or none (`LineSteps`), and `Following` says that the
records not yet read are a way from the lines the client has to those the server said,
where the record being read was sealed as the client opens it. Where it was not,
nothing need be known: what such a record brings stays after the mark, and `record_end`
drops it when the tag does not match. So the invariant, `LInv == CInv /\ InOrder /\
AsSaid /\ Following`, speaks of the lines kept (`AsSaid`) apart from those that are
only on the way.

A `Standard` flight is what it asks for, if anything, then its certificate, its
signature and its Finished, each the header and then the body, in any cut: the flights
of `conn_honest` are. One of `conn_faults` proves itself and asks for something after
that, which the client refuses as it should; it is outside. The invariant is
`HInv == RInv /\ InTurn /\ MacFits /\ Unfailed`. `Unfailed` has the way again, of
records that are whole and good (`WholeSteps`; what is left of one being read is in
`GoodSteps`), to where the server is in its flight; and at the client's end what it
has made of the flight so far, given how many items are left of it (`Taken`): that is
why no message finds the engine in a state that refuses it, and why at the Finished
there are a leaf and a signature to verify. `InTurn` says that a server speaks of
nothing but the handshake before the client's Finished, and that the client, having
sent it, reads nothing until the connection is open: a ticket that came while the
chain is looked at would be refused. `MacFits` is about the one multiplier table that
opening and sealing share: while a sealed record is being read it is the reader's or
not ready, though a line be sealed between two deliveries.

`SessionProofs`, for every list of channels, set of nicks, idle times, bounds, and
answers of the server's, from `SessionAssumption`:

| theorem | says |
|---|---|
| `SessionTypes` | `Spec => []TypeOK` |
| `LinesAreNotGlued` | the bytes in the line buffer are of the connection in use |
| `StopIsForGood` | after RUN/STOP was read, in the handshake, a pause, the minute or the loop, or after `/quit`, the session goes out to the first screen and dials no more |
| `AnsweringLinkIsKept` | a link whose server answers within a tick is not taken for dead |

The invariant is `Types /\ Wire /\ Glue /\ Stopped /\ Answered`. `Wire` types what is
under way, without which the nick is not known to be a sequence of characters; that
trying again fits the array (`NickFits`) is part of `Types`. `Glue` adds to
`NoGluedLine` that nothing is half read from an attempt's first failure until the
connection is open, since the buffer is emptied at the first attempt only.
`Stopped` says where the session can be once RUN/STOP was pressed. `Answered` is
why the idle PING works: on a link that answers, either no PING was sent and the
link has not been idle for long, or the PING is still on its way to the server, or
something has come back and is not yet read.

Four more are of what must be so when all is said (`Settled`: the link is up,
the client is in its loop, nothing is under way):

| theorem | says | assuming |
|---|---|---|
| `RegistrationDone` | client and server are through registration, or trying again has led to a nick no server takes | the server does not answer the password with 902, as `session_refused` has it do |
| `PasswordSaidOnce` | the password was said once, by SASL or to NickServ | the same |
| `ChannelsJoinedOnce` | each channel of the first screen was joined once, or not at all if the user was told there is no view for it | none is listed twice |
| `NicksAgree` | the client goes by the nick the server knows, unless that has taken one longer than `nick[]` or trying again led to one no server takes | no `/nick` before the welcome, as `session_early` has it |

The assumptions of the first two and the last leave out the one thing each that the
code is found to do wrong (section 5), and so do the exceptions: that trying again may
lead nowhere is section 5's. Every one of the four is about two queues, and
holds because what was asked for is granted or is still in one of them, just once
(`None`, `One`). The session's many actions are first reduced to five things that
happen to a connection (`Said`): it opens, the client reads a line and answers it, the
client says something of its own, the server hears a line and answers it, the server
says something unasked. An invariant then has one lemma for each. `Registering` has
the places of the login (`Login`: none or over, begun, the server's turn to go on or to end it, the client's,
accepted), of the welcome and of the password to NickServ (`Welcome`, `Ident`);
`Joining` where the joins are. `Naming` follows the nick: the client went by some nick
with the server as that wrote each message still under way (`Told`), and the one it
goes by itself is one of these, of which it is still to hear what followed, unless it
is on its way to the server or the refusal of one is on its way back.

`AtticProofs`, for every size of the ring, of the history and of the ignore list,
every width of the two counts, and all names, from `AtticAssumption` (among which:
each count is a whole number of rings, as the code's comments say of 65536 and 256,
and a name's case does not change whether it fits an entry):

| theorem | says |
|---|---|
| `ScrollbackImplemented` | `Spec => Abs!Spec`: `Attic`'s ring implements `Scrollback`, on which `Views` is built |
| `RecallIsExact` | the cursor keys offer the k-th newest line sent, k lines back |
| `IgnoringIsExact` | those are silent whom the user was last told to be ignoring, of the names that fit |
| `SlotsAreKept` | the rows, the lines and the list stay in their own slots |

The first part is arithmetic: a ring of `r` slots under a count modulo a multiple of
`r`. `Apart` (two numbers less than a ring apart are in different slots) and `Whole`
(going once round the count changes no slot) give `SlotApart`: what was counted less
than a ring ago has a slot of its own still, on whichever side of the count's wrap
it is. With `CountedOn` (what is `d` before becomes `d + 1` before) that is all
either ring needs, the rows' (`RowsMoveBack`) and the lines' (`LinesMoveBack`).
The refinement then speaks of rows by how long ago they were logged (`KeptIs`), not
of slots. The invariant is `Types /\ History /\ Silence`. `Types` keeps each tenant
to its slots, so that a row logged disturbs no line and no name. `History` says of
every line kept, not of the one recalled, that it is where `hist_recall` looks.
`Silence` adds to `IgnoredAreSilent` that no name is entered twice, unless it is what
a longer one was cut to: emptying the first entry that matches would otherwise not
be enough.

`MarksProofs`, for every number of blocks, tracks, slots, entries and faults, every
disk that is sound and every point at which a read or a write fails or the power goes,
from `DiskAssumption`, `FormatsAssumption` and `MarksAssumption`:

| theorem | says |
|---|---|
| `TextFits` | `MarksSpec => []MarksTypeOK`: the text never outgrows its memory, whoever wrote the file, and every entry counted is in it, for any sizes of memory and screen |
| `BlocksApart` | no block is in two files and none in use is free, until a write is torn |
| `NothingLost` | without a fault every block not in use is free, if the map said so of the disk that was found (`Exact`) |
| `ProgramKept` | no step changes what another file holds, until a write is torn |
| `SavedStays` | what is said to be saved is what the next visit reads, on a torn disk too, if the file is the only one of its name |
| `ListRight` | the list shown is the file's while nothing fails, removals too, if no disk found has two files of the name (`Single`) |

A chain is given by a recursive function, and what such a function computes is known
by the least number for which it would fail (`Counted`, from the library's
well-foundedness of numbers). With it a walk follows the links (`WalkLinked`), what
leads along them to an end without coming by a block twice is the chain
(`WholeChain`), and a chain stays what it is while none of its blocks is written
(`ChainStays`). What a write does to the disk is one of four things: nothing in any
file (`Untouched`), the directory longer by a block (`Extended`), an entry written
(`Entered`) or cleared (`Cleared`).

The invariant is `MarksInv == DiskInv /\ MarksTypeOK /\ TextInv`, and `DiskInv` is
`TypeOK`, `Made`, and as long as nothing is torn `Tidy` and `Safe`. `Tidy` is the
disk's own order: every chain ends and none meets another. `Safe` says which blocks
the maps, on the disk and in memory, may call free at each place of an operation; it
is not enough that none in use is free between operations, since `cbmdos_create` gives
away what it read long before, and `cbmdos_delete` what it is about to clear. `Made` says
how much of the new file is on the disk (`FillingBy`, `Placed`): its blocks are in no
other file and not free in memory, and hold what was put. It does not need `Tidy`,
which is why `SavedStays` holds of a torn disk. `Complete`, the other half of `Safe`,
is for `NothingLost`: not only are the free blocks not in use, there are no others.
`TextInv` says that what is put is the text, as far as that has come.

`ListRight` is about room: the file is deleted and made again, and nobody looks at what
a removal's write returned. `Listed` says that a text being written again after a
removal has the blocks and the directory slot of the longer file that was deleted
(`Room`), at each place between the delete and the close. It does not need `Exact`.

`CertificateProofs` and `ChainProofs`, for all certificates, authorities, anchors,
hosts and clocks, every limit of the store and every byte of it that comes out wrong:

| theorem | says |
|---|---|
| `SameWalker` | the two walkers, `der_elem` and `element`, see the same element at any offset of any bytes |
| `FoundInside` | of any bytes at all: what is found is inside them and in order, and the key is found where the other walker finds it |
| `FileRead` | of a certificate that was written: the part that is signed, the signature, its algorithm and the key are found as they were put there |
| `CertificatesAreRead` | `Spec => []PartsAreFound` |
| `MatchCovers` | a name that matches a host covers it: label by label, a star for the first and for no more |
| `ChainsAreIssued` | `Spec => []OnlyTheIssued`: a store is accepted only if its first certificate was issued, for the host and in date, under keys handed down from an anchor by certificates that were issued and are in date too; or is an anchor |

They assume three things. `OidsAssumption`: the object identifiers are bytes, and none
can be taken for another; the tables of `tls/x509.c`, `tls/chain.c` and `tls/policy.c`
are such. `SizesAssumption`: the limits are numbers, the store is less than 64 KB (it is
5,888 bytes, and the code counts it in 16 bits), and the build is of a year from 2000
to 2079, so that twenty years on is of the same century. `ChainsAssumption`: the
questions are of the right types and no certificate has more than 65,535 bytes, since
`der_elem` reads lengths of up to two bytes and refuses longer ones; the dates of a
certificate are of 2000 to 2099, which is what `time12` takes them to be when it drops
the century; the anchors are keys; and `Signed` and `Roots` are what the authorities signed and the client carries. No chain
is assumed to be right, no byte to be where it should, and nothing is assumed of which
certificates the authorities issue: two may share a name, a key or every date.

The first two are about any bytes. A walk over elements is a recursive function,
`Along`, and what it computes is known as for the disk's chains, by the least offset
from the end at which it would fail: `Chained` says that a walk is the elements that
follow one another to where there is none. `HeadSeen` then is all that either walker
makes of two bytes of a head.

The next two are about bytes that were written. `Encoded` says that what an authority
makes is bytes if its length fits (a length in two bytes of something longer would
not be); `Spans`, that it is what stands between two offsets; `ReadAs`, that an element read
there has its tag and its content. `Laid` and `Row` put the fields of a certificate in
a row, the version and the extensions there or not, and each field is read by its
number. The key is found by its own walk, and `KeyRead` says it is the same one.

The last is the check from its end. The invariant is `AnswerIs`, that an answer is what
the code returned on the question asked; what remains is what "OK" means. The store
was split into pieces of it (`SplitIs`), every link verified, and the last key is an anchor's
(`VerifySays`). A signature is good only if an authority made it, over the bytes found
as the signed part; these are then the whole of a certificate that was issued, in this
piece (`LinkIs`), with the key found in the next piece. That piece's key is in turn
the one its own certificate gives, or an anchor's (`HandedDown`); so, from the anchor
down, each key is trusted (`TrustedDown`). The dates are read out of the same
certificate, and twelve digits compare as the dates do, both being of one century
(`HeldInDate`). The name is found by two more walks, through the extensions and the
list of names, and is one of the certificate's (`NamesRead`); that it covers the host
is `MatchCovers`, between a comparison of bytes behind a star and the labels a name
is cut into.

Only model-checked, and why:

- `ChainIsProven`: its damaged half is about the chain that was sent, and does not
  hold of any authorities whatever, since a damaged byte can make of one certificate
  another that was issued: `OnlyTheIssued` is what is true of all of them. The other
  half, that a right chain is accepted and that the right reason is given for a wrong
  one, needs anchors that tell keys apart, a first certificate the store has room for,
  and a clock not a century off (`read_clock` takes the year modulo a hundred, so 1925
  reads as 2025);
- `ArithmeticIsExact`, `ParsedAsSaid`, `SentAsTyped`: what a fold computes for every
  input is out of the prover's reach, since the library's induction theorems cannot be
  used with these provers, and only what follows from a least counterexample was
  proved without them. A computation is checked on every input of a bounded set;
- liveness (`PumpEnds`, `DeadLinkFound`).

## 5. What the code does otherwise than is said of it

Four disagreements are runs whose property TLC finds violated:

- `views_scroll`: `view_init` (`m65/view.c:44`) clears the logs but not
  `views[0].back`. Leave a session while the status view is scrolled back and the
  next one begins scrolled back over an empty log: its lines are not drawn until
  HOME or a line typed.
- `conn_ticket`: `on_record_end` (`m65/conn.c:53`) ignores `keep`, so a session
  ticket, handed over as data, stays in the line being read; `tls/tls.h:17-19`
  says it is taken back. The next line from the server begins with the ticket's
  bytes.
- `session_early`: a `/nick` sent before the welcome is taken by the server
  without a `NICK` line, and `001`, which names the nick, is not read for it.
- `session_refused`: a login answered with 902 gets no `CAP END`, and each side
  waits for the other until one of them times out.

Others met while modelling are in the actions, have no run of their own, and are
listed as hazards:

- rows that come to the showing view while it is scrolled back are not starred
  once another view is shown (`m65/view.c:117`; `MANUAL.md:62-63`);
- a name longer than `VIEW_NAME_CAP - 1` is stored cut and looked up whole, so it
  is never found again (`m65/view.c:59`);
- with every view taken a private message goes to the status view, not to the view
  being looked at (`m65/cmd.c:90`; `MANUAL.md:98-99`);
- of a nick in use with fifteen characters or sixteen the last one is replaced by its
  successor (`ircc.c:359`), which after a 9 is a colon: the server answers 432, for
  which the client does nothing, and registration stays where it is until another nick
  is typed. The comment at `ircc.c:357` says "a digit on the end, again". The
  properties except a nick that is not `Valid`;
- `push_out` (`m65/conn.c:63`) goes on while the link is up and takes nothing, without
  a bound and without reading a key, and neither the idle time nor the dead link is
  looked at meanwhile; `LLM.md:198` says "Every wait bounded on `$D7FA`" and
  `LLM.md:227` "Every wait reads the keyboard". `DeadLinkFound` excepts the client that
  is there (`spinning`), and `PumpEnds` needs a server that goes on taking bytes;
- a nick longer than sixteen characters, typed after `/nick` and taken by the server,
  is kept cut (`ircc.c:381`), and the client no longer knows its own lines for its own;
- an alert in the clear is heard only if both its bytes come in one delivery
  (`tls/tls.c:618`; `tls/tls.h:11`);
- the bookmarks are deleted before they are written anew (`m65/marks.c:84`): a full
  disk, a failed write or a reset then leaves none of them. An addition that fails
  is said to; a removal that fails is not (`ircc.c:567`);
- a new file's entry is written before the map (`platform/m65_cbmdos.c:439`). A fault
  between the two leaves a file in blocks that are still free: the next file made
  takes them, and if that is cut short too, the old entry's chain leads to a block
  never written and on to whatever that one still links to. A deletion of the entry
  then frees those blocks, the program's among them. This is what `torn` marks, and why
  `NoSharedBlocks` and `OthersKept` end there;
- a bookmark file that cannot be read at that moment counts as empty, and the next
  bookmark saved replaces it (`m65/marks.c:59`);
- a directory that cannot be read lets a second file of a name be made
  (`platform/m65_cbmdos.c:185`, against the comment at 250 of the same file), and
  the older one is the one found;
- `m65_cbmdos.h` says the directory chain is not extended; it is;
- `fe_mul` (`crypto/curve25519.c:146`, and `fe_red_m65` in `crypto/mulacc_m65.S`)
  drops the carry out of the second fold of 2^256 into 38: a product for which it
  carries is 38 short. `Meant.CarryLost` says which. In the real field it takes a
  folded value within 38 of 2^256, about one product in 2^247, so no vector meets
  it; with the program's own arithmetic compiled for a host, chosen operands give
  a product of 162 for 200;
- the highest bit of a PSS encoding is cleared and not looked at
  (`crypto/rsa.c:47`), so a signature opens with that bit either way;
- a name too long for an ignore entry is said to be ignored, stored cut and
  compared whole: the person goes on being heard, and somebody else may not
  (`m65/cmd.c:170`);
- the text of `/topic` that begins with `#` or `&` is taken for a channel
  (`m65/cmd.c:145`), as is a `/kick`'s or a `/mode`'s first word;
- after 256 lines sent the history is empty and fills again (`ircc.c:714`);
- a message typed when the link is lost and not yet found dead is shown as sent
  (`ircc.c:420`).

## 6. What is not modelled

- the hashes, HKDF, ChaCha20 and the bits of Poly1305, which have no branch on what
  they compute and are tested against vectors; P-256 and Ed25519 verification,
  which the program's build leaves out, and the assembly versions of the rows and
  the field, which are the C's by design and not read here;
- the bank loader, DMA, screen, keyboard and randomness: memory-mapped I/O;
- a certificate chain inside the handshake: in `Conn` its result is any of the
  answers of `Chain`, and the two are not run together;
- the second ClientHello of `TLS_P256`, which this client does not compile in;
- a KeyUpdate from the server, which the engine passes over;
- in `Session`: a `/join`, a `/part`, a `/msg` and an `/identify` that the user types, and the
  view opened by the echo of our own JOIN (`Views` and `Lines` have what they do there);
  that the three lines of the greeting are sent at all, a window just opened being
  taken to hold them; capitals in nicks; lines longer than the buffer (`Lines` has
  them);
- formatting, colours, the text of the bar and of notices;
- mega-net and both servers, which are not in this repository: as the code uses
  them.

## 7. The plan

Done: `Attic`, `Scrollback`, `Views`, `TlsEngine` with `Conn`, `Session`, `Marks` over `Disk`,
and `Chain` over `Der`, with proofs; `Mp`, `Pss`, `X25519`, `Lines` under `Answers`.

Next, in this order:

1. `Conn` over `Chain`: the certificates of a flight as certificates, so that what
   is verified under which key is one model.
2. The exact half of `ChainIsProven` as a theorem, over authorities whose keys are
   told apart.
3. Base64 and the login line of SASL; what WHOIS and the numerics print.
