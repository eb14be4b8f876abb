# MediaX: a TLA+ model of the media streaming library

MediaX transmits and receives RTP video (RFC 4175 raw video, H.264, H.265,
AV1, JPEG) and announces and discovers the streams with SAP/SDP. The raw-video
payloader and depayloader, the SAP announcer and the SAP listener are classes
with a background thread each, plain member variables shared with the client's
thread, and UDP between them. The compressed codecs are classes around
GStreamer pipelines, whose threads take the place of the library's own. Around
them are the camera source, helper classes that join a stream to its
announcement, and example programs. `src/` below is the repository.

## 1. Inventory

| component | state | operations | interacts with |
|---|---|---|---|
| `src/src/uncompressed/rtp_uncompressed_payloader.cc` | encoding and port, socket, `arg_tx.rgb_frame`, mutex, static `sequence_number_` | SetStreamInfo, Open, Close, Transmit (blocking or detached), destructor; one std::thread per Transmit | every other payloader (the static counter), UDP |
| `src/src/uncompressed/rtp_uncompressed_depayloader.cc`, `src/src/rtp/rtp_depayloader.{h,cc}` | settings, socket, `state_`, `rx_thread_running_`, atomic `new_rx_frame_`, frame buffer, callback | SetStreamInfo, RegisterCallback, Open, Close, Start, Stop, Receive; the receive thread | UDP, the client's callback |
| `src/src/sap/sap_announcer.cc` | `streams_` vector, `running_`, socket, thread | Start, Stop, Restart, Add/Delete/Undelete/DeleteAll, destructor; thread announcing once a second | UDP multicast |
| `src/src/sap/sap_listener.cc` | map of announcements, map of callbacks, one data pointer, `running_` | Start, Stop, RegisterSapListener, GetStreamInformation; thread storing messages and calling back | UDP multicast, callbacks |
| `src/src/sap/sap_utils.cc`, `src/src/rtp/rtp_types.h` | tables | encoding to text and back | announcer, listener, payloaders |
| GStreamer depayloaders (`src/src/h264/gst`, `h265/gst`, `av1/gst`, `jpeg/gst`), eight classes | pipeline pointer, `state_`, a plain `new_rx_frame_`, frame buffer, callback | SetStreamInfo, RegisterCallback, Open, Start, Stop, Close, Receive; the appsink callback in the streaming thread | GStreamer, the client's callback |
| GStreamer payloaders (same directories), ten classes | pipeline pointer, `started_`, the appsrc's queue | SetStreamInfo, Open, Start, Stop, Close, Transmit | GStreamer |
| `src/src/wrappers/rtp_sap_wrapper.h` | a payloader or depayloader, `deleted`, the SAP singletons | constructors, destructors, GetBufferTestPattern, Transmit, Receive, the listener's callback | all of the above, the test cards |
| `src/src/v4l2` | descriptor, one mapped buffer | Initalise, CaptureFrame, destructor | the kernel |
| `src/example/v4l2` (in C and in C++) | buffers, the number of images left | the whole program, from open to close | the kernel, signals |
| `src/example/rtp_transmit` | source, frame buffers, frame count | main, signal handler | announcer, payloaders, camera, test cards, PNG files |
| `src/src/rtp/rtp_utils.cc` | the static chroma flag and ball of the test cards | pixel sizes, test cards | wrappers, examples |
| `src/src/utils` | none | colourspace conversion | none |
| `src/src/qt6`, language bindings, `src/example/rtp_receive` | signals, windows | forward every call | the classes above |

Hard behaviours: no component but the payloader takes a lock, so every access
to shared state is a step other threads fall between; detached threads outlive
the call that made them; flags are polled; UDP loses, reorders and repeats;
timeouts race answers; a thread that blocks in `recvfrom` is joined by `Stop`;
`std::vector` moves under an iterating thread; a pipeline plays on when the
pointer to it is overwritten, and elements may be missing on the machine; a
camera stalls, a signal interrupts a system call; static variables are shared
by every object of the process. PROJECT.json lists the hazards with their
lines; section 5 has those that no property can be about.

What makes each component correct: a payloader sends each frame in line order,
unmixed and with consecutive numbers, and blocking calls send what they were
given and return; a depayloader raises its flag at the end of a frame, and its
`Stop` leaves no thread and returns; end to end what is shown was sent, in
order and not twice while the network keeps order, and whole while it keeps
everything; an announcer keeps streams unique, announces what is live and falls
silent on what is deleted or stopped; a listener stores a message whole before
it calls each due callback; end to end the directory converges to what is on
the air. A GStreamer receiver is quiet when it is stopped, describes a frame as
it is and returns a pointer that is still the buffer's; a GStreamer sender
accepts frames while it plays and sends them as they were. A capture program
loses no buffer, loses no image to a signal and converts none the camera writes
to; a receiver that is destroyed is not opened behind its destruction; a card
and a copy stay within their buffers; a signal ends the programs.

The code does not do all of this. Where it does not, the model does what the
code does, the property says what is left, and its exceptions are named there
and in section 5.

## 2. Modules

| module | models | kind |
|---|---|---|
| `RtpUncompressedPayloader` | the raw-video transmitter | component |
| `RtpUncompressedDepayloader` | the raw-video receiver and its base class | component |
| `FrameChannel` | what a video link promises | abstract specification |
| `UncompressedStream` | transmitter + UDP (loss, repetition, reordering) + receiver | composition, extends the receiver, refines `FrameChannel` |
| `SapAnnouncer` | the announcer | component |
| `SapListener` | the listener | component |
| `SapDiscovery` | announcer + lossy multicast + listener | composition, extends the listener |
| `GstReceivers` | the tables that tell the eight GStreamer receivers apart | tables |
| `GstDepayloader` | a GStreamer receiver of any class | component |
| `GstPayloader` | a GStreamer sender of any class | component |
| `Encodings` | pixel sizes, and the modes of the examples | operators |
| `TestCards` | which bytes the test cards reach, and what outlives them | component |
| `RtpSapWrapper` | the wrappers, with the listener's thread | composition with `TestCards` |
| `V4l2Source` | the library's camera | component |
| `TransmitExample` | the transmit program | composition with `V4l2Source` |
| `CaptureYuyv`, `CaptureYuyvClass` | the capture program, in C and in C++ | component |
| `MCPayloader`, `MCDepayloader`, `MCAnnouncer`, `MCListener`, `MCDiscovery`, `MCReceivers`, `MCWrapper` | small instances for TLC | model checking |
| `RtpUncompressedPayloader_proofs`, `SapAnnouncer_proofs`, `GstDepayloader_proofs`, `GstPayloader_proofs`, `CaptureYuyvClass_proofs` | theorems about the component | proofs |
| `UncompressedStream_proofs` | theorems about the receiver, and the stream it is part of | proofs |
| `SapDiscovery_proofs` | theorems about the listener, and discovery | proofs |
| `Applications_proofs` | theorems about the wrappers, the test cards and the transmit program | proofs |

`map` in PROJECT.json names the lines each definition stands for. Definitions
whose name ends in `Mutant` are wrong versions of the definition behind them;
no specification uses them. They are there to be put in the place of the
original, one at a time, to see that the property in question notices.

### RtpUncompressedPayloader

`Transmit` stores the caller's pointer in `rgb_frame` (the member
`arg_tx.rgb_frame`), spawns a thread and joins (`caller`) or detaches it; with
port 0 it stores the pointer and refuses (`TransmitRefused`). A thread goes
through `lock` (the scoped_lock), and for every line through `test` (the loop's
condition) and `last` (is this the last one), which both read the height anew,
`header` (the sequence number is read into the packet), `increment`
(`sequence_number_++`, a load and a store that no lock shared by two streams
guards) and `send` (the line is read through `rgb_frame` as it is now).
`SetStreamInfo` may change the height between any two of them, when the thread
is detached. A `sendto` that gives 0 ends the frame (`cut`), one that fails does
not. A packet records the frame and the row it was read from: line n carries row
n, rows being counted from 0, so that row 0 is never sent and the last line is
what lies behind the frame. `turn`, `passed` and `sends` are history: which call
a thread serves, what the calls were given, what was sent. Each thread
identifier is used once, which bounds the Transmit calls. `Open` may end the
process (no port, no socket, no such host), and a detached thread that outlives
its stream may crash (`UseAfterFree`) or go on with the memory as it was left.

### RtpUncompressedDepayloader

The client's thread is in `api`, the receive thread in `pc`. `rcvtimeo` is
separate from `socket_open` since the thread sets the timeout once, on the
socket of that moment; `bounded` remembers whether the pending `recvfrom` will
give up. A packet is the list of scan lines its headers announce: all are copied
up to the first numbered 0 (`Copies`, `Stored`), and one numbered above the
height is copied behind the buffer (`Overruns`), which may end the process. A
datagram that is no RTP sets `last_scan_line` (`RecvForeign`). `Receive` is a
test, and then a reset or a wait with its polling, one step each; its timeout
blanks the buffer. History: `since` (packets since the end of the last frame)
and `ended` (the packet that ended it), `blanked`, and `foreign` and `strayed`
(the thread's flag, and the shared one, come from a datagram that is no RTP).
`Destroy` and a second `Start` over a thread that was not joined end the
process, as destroying a joinable std::thread does.

### FrameChannel and UncompressedStream

The channel knows how many frames were sent, which one was shown last, and for
each row of the picture which row of which frame it shows. Whatever the network
does, a picture ends with the last line of a frame that was sent, and a row of
it is blank or shows the row of its own number of such a frame (row n of the
picture, counted from 1, shows row n of the frame, counted from 0: one too
high). While the network has kept the order (`ordered`), a step shows a frame
newer than the last, whose rows are no newer than it and no older than what they
showed.

The stream extends the receiver, whose variables keep their names, and
instantiates the transmitter and the channel with `INSTANCE ... WITH`. A
`sendto` puts the packet on `wire`; `Deliver(i)` brings any packet of it, now or
later, once, again or never. `newest`, `ordered` and `intact` are the network's
history: the last packet delivered, whether each came later on the wire than
those before, and whether none was left out, either. `OnTheWire` is the
transmitter's packet as the receiver parses it: its line number, the frame and
row it was read from, and a second header numbered 0. `ImplementsChannel` is the
channel's specification under the mapping `sent <- Len(passed[Stream])`.

### SapAnnouncer

The vector is its allocation: `storage` holds the elements and the destroyed
ones behind them, `size` and `capacity` are the vector's. `dangling` says that
the announcement thread iterates memory that `push_back` has given back; what
it then reads is any outcome, the end of the process included. The thread
tests `deleted` in `Scan` and sends in `SendSapAnnouncement`, two steps. A call
of the client that sends packets is one step per packet. `onair` and `late`
are history: the last packet about each stream, and announcements after its
deletion.

### SapListener

A message is what the parser makes of a packet, a record: the text of SDP is
abstracted, its outcomes are not. A packet of less than eight bytes is dropped
(`Short`), one the parser's `substr` or `stoi` throws on ends the process
(`Malformed`, `ParseFails`), since nothing in the thread catches it, and one
that names no session is stored, and called back for, under the empty name.
Storing a message is one step per member (`address`, `media`, `deleted`), since
the map is assigned with no lock. The walk over the callbacks takes a step for
each of the two conditions of the loop's body, which are two `if`s: the callback
for all sessions, registered under the empty name, meets both for a message
without a name, and is called twice, with a null pointer and with the data.
`GetStreamInformation` copies in two steps. `owed` and `told` are history: which
callbacks were registered when a message was stored, and how often each was
called for it. A client that reads what the thread is writing may crash
(`ReadsMap`).

### SapDiscovery

The module extends the listener and instantiates the announcer with
`INSTANCE ... WITH`; a multicast delivers or loses each packet. Both ends start
and stop at will. The announcer's client makes every call, `Restart`,
`Undelete` and the destructor included, but for `DeleteAllSapAnnouncements`,
whose behaviour is undefined while the thread runs (`SapAnnouncer` has it).

### GstReceivers and GstDepayloader

The eight receivers are written out by hand, each with its own slips, so the
differences are data: what the constructor and `SetStreamInfo` set, the order in
which `NewFrameCallback` compares formats (`"RGB"` is a prefix of `"RGBA"`), the
elements `Open` makes and those it tests, and which guards, resets and timeouts
a class has. `PictureBytes` is the size of a mapped picture as GStreamer lays it
out: rows of luma and chroma padded to four bytes (`Aligned`), chroma planes of
an even number of rows and columns.

`GstDepayloader` is one machine for any of them. The client's thread is in
`api`, the streaming thread in `pc`. The streaming thread resizes the buffer,
sets encoding, height and width (`SetColourSpace`, `SetHeight`, `SetWidth`),
copies, sets the flag and calls back, a step each. `Receive` reads height,
width, encoding and the buffer's address, a step each, the first three before
the wait or, in the OpenH264, VAAPI and OMX receivers of H.264, behind it;
`data` holds what it has read. `overtaken` is history: since `Receive` saw the
flag the streaming thread has run a setter, or was between two of them.
`buffer.storage` is the vector's allocation by its capacity, so that a pointer
read before a reallocation can be told from the new one; `buffer.blank` says
whether a timeout zeroed the picture, and whether it raced the copy. `missing`
is what the class uses and is not installed: `gst_element_factory_make` then
returns a null pointer, which also ends the list being linked. `misused` means
that GStreamer was handed a pointer to no live pipeline; behaviours end there.
`abandoned` means that a second `Open` overwrote a playing pipeline, which plays
on.

### GstPayloader

One machine for the ten senders, with a record each. `Transmit` pushes into
`queue`, and `Encode` is GStreamer's threads at its head. The push reaches a
queue only if the pipeline plays, has an appsrc, and `Open` had not returned
before it put the appsrc into the pipeline (`Takes`); all classes but the NVIDIA
one answer "accepted" whether it did or not. A frame remembers whether it was
copied from the caller's memory and in which run it was pushed. `Draw` is the
client drawing the next picture over the last.

### V4l2Source and TransmitExample

`Initalise(failing, length)` is the eight system calls up to the one that fails;
`length` is what the driver gives its buffer, which nothing compares with the
image asked for. The buffer changes hands between program and driver. The
program announces, opens, prepares the image of its source (`CardSource`,
`PngSource`, `CameraSource`, `NoSource`) and loops: copy or capture, transmit,
count. Sizes are bytes, and `overrun` collects the accesses that leave their
buffer, by name: what a card or noise writes, what is read of the PNG's image
(`png`), of the picture copied (`image`), of the camera's mapping (`mapping`),
of what is transmitted (`row`), what the camera's copy writes (`camera`) and
what the destructor unmaps (`unmap`). Its specification is called `Example`, so
that the wrappers can stand beside it in one module of proofs.

### CaptureYuyv and CaptureYuyvClass

`pc` is the step of `main()`, `owner` who has each of the driver's buffers. All
three input methods are initial states. Any call may fail (`errno_exit`), and
one that is not made again when a signal interrupts it ends the program
(`xioctl`): `open`, the selection of the input, `read` and `close`. The class
repeats the functions as methods, so its module names them in terms of the
program's and adds its own constructor.

### Encodings, TestCards and RtpSapWrapper

A card is the range of bytes it reaches (`drawn`) and its effect on the two
static variables: PackRgb()'s `odd`, which alternates U and V, and the position
of the ball. Encodings include the planar ones, whose chroma PackRgb() puts
where an image of 640 by 480 has it, and images of any size, in which the clamp
of the ball wraps below 50 and the number of pixels may be odd. `swapped` and
`narrow` are history: an odd number of pixels was drawn, and a ball was drawn in
an image that may be too small for it. The wrapper module has transmitters and
receivers that the application makes and destroys, one announcer and one
listener for all, and the listener's thread inside `Callback`, with a step each
for `deleted`, `Open` and `Start`. Each destructor ends GStreamer for the whole
process (`initialised`). `crashed` means that a null or destroyed receiver was
dereferenced.

## 3. Runs

| run | what it asks | bounds |
|---|---|---|
| `transmit` | do frames leave unmixed, in line order, with consecutive numbers; do blocking calls send what they were given, return, and leave no thread behind | 1 stream, 2 Transmit calls, blocking or not, 2 frames, a height that changes between 2 and 1, a port and an encoding that come and go, counter modulo 3 |
| `rx` | does Stop return and leave no thread; what does the frame flag say of the buffer | frames of 2 lines; 7 kinds of packet (a line each, a whole frame, one row twice, a line behind the last row, none, no RTP) in any order; 1 queued |
| `stream` | does the link implement the channel; are frames whole without loss; is a queued frame shown | 2 frames of 2 lines, 1 queued, any loss, repetition and reordering, counter modulo 4 |
| `announcer` | uniqueness, silence after stop and deletion, live streams announced, calls return | 2 streams of one name on two addresses |
| `listener` | each due callback called, with its message stored whole; Stop quiet and returning | 2 sessions, one user, 3 messages of which one names no session, packets that are too short or malformed, 1 queued |
| `listener_data` | a callback is handed another registration's data, or none (violated) | the same with 2 users |
| `discovery` | directory converges to the air; a live stream is found despite losses | 1 stream, 2 queued |
| `gst_receive` | is a stopped receiver quiet, is a received frame what it says and where it says, do calls return | 8 classes, with and without the parsers, 2 picture sizes, of which one has padded rows in RGB |
| `gst_transmit` | is a frame accepted by a playing pipeline only, sent as it was and in its run; is it encoded; does Close return | 10 classes, 3 sets of missing elements, 2 sizes, 2 pictures, 2 runs |
| `capture` | are buffers stable and none lost, images saved in order; does a signal cost an image; does the program end | 4 buffers (of which 2 to 4 are granted), 6 images, 3 programs, 3 methods |
| `wrapper` | is a receiver opened once and never behind its destruction; do cards stay in their buffers, with their chroma in order | 2 transmitters, 2 receivers, 3 image sizes, YUV422 |
| `transmit_example` | what does the program read and write outside its buffers; does a signal end it and withdraw the announcement | 14 sources, 7 modes, 4 sizes of PNG file, 3 lengths of the camera's buffer, 3 frame limits |

Why the bounds suffice for the questions asked. Two Transmit calls are enough
for a detached thread to be overtaken, to hold the mutex against another, to
have its height changed, and for the counter to wrap (two frames of two lines,
modulo 3). One line is never enough (first and last coincide), two lines have a
first, a last and a successor. One stream is all that its own lines, frames and
blocking calls depend on; what streams share is the counter, and
`SequenceConsecutive` is about the stream that has it alone (of two nothing can
be promised, section 5); the theorems hold of any number. The receiver's socket
holds one packet: the flag, the publication and the callback of one packet
interleave with the arrival of the next; the theorems hold of any capacity. The
stream's wire keeps every packet for ever, so four packets in any order with
repetition are all the network can do to two frames. Two streams of the
announcer are what a uniqueness, a reallocation of the vector (at the second
`push_back`) and a pass interrupted between two elements need. Two picture sizes
let a buffer grow and shrink; two runs let a frame be left over from the one
before; the sets of missing elements hold one that is tested for and one that is
not, for the classes that differ in it. Four capture buffers are what the
program asks for, and six images make every buffer come round again. One image
for the cards is as low as the ball's way allows, one has an odd number of
pixels, and one has no room for the ball; YUV422 is the encoding in which cards
share the flag of the chroma, the others are the theorem's. PNG files are
smaller than the stream, of its size, larger, and unreadable; a camera's buffer
is shorter than the image, of its size, and as long as what is unmapped.
Deadlock is not checked: `exit()`, destroyed objects, ended programs and clients
that stop calling are legitimate ends.

The `stream` composition drives blocking calls: with detached ones a line may
carry a later frame (section 5).

### Fairness

Weak fairness of every thread's next step and of the steps that finish a call
(a join, a return, a sweep): the operating system schedules both threads, and
nothing in them waits for the other but the joins and the mutex, which are
guards. Strong fairness of `TimesOut`: the wait alternates between polling and
sleeping, and its deadline passes. In `stream` the receiver's thread alone is
fair: neither the sender nor the network owes the next packet. Strong fairness
of `Delivered` in `SapDiscovery`: an announcement repeated once a second is not
lost every time. The GStreamer receivers assume the same of the client's thread,
the streaming thread and `TimesOut`, and that a client's callback returns; the
senders, that GStreamer's threads run and that a `Close` that can go on does. In
`capture` the program's steps are weakly fair and `read_frame` strongly, as a
device that select() reports again and again does not answer EAGAIN every time.
In `transmit_example` the dequeue is fair only once the driver has filled the
buffer. Nothing makes a client call anything, a packet or a picture arrive, a
camera deliver or a signal come.

## 4. Proofs

All are for arbitrary constants under the named assumption of the module. Every
safety property of a passing run, invariant or action property, is a theorem.

### Payloader (`RtpUncompressedPayloader_proofs`)

`TypeCorrect`. `FramesSerialised` (`LinesInOrder`): the invariant `OrderInv`
relates the holder of the mutex, the line it is at and the last packet sent,
since the property speaks of packets only and says nothing of where the thread
is. A height changed under a thread moves its end, not its order.

`BlockingFrames` (`BlockingSendsItsFrame`) and `BlockingThreads`: `Serving` says
that a thread of a blocking call is the one its client waits for, so the stream
is alive and `rgb_frame` and the height are that call's; `SentInv` carries this
to the packets, row by row, and `DoneInv` has the last line on the wire where
the thread ended without a cut. That every line is read one row too far down,
the last one behind the frame, is what the theorem says of the code, not an
exception to it.

`NumbersConsecutive` (`SequenceConsecutive`): the property holds of a stream
that alone has used the counter. `CounterFollows` says where the number is
between two packets: the counter is the next number, or a thread has read it
and not stored its successor, or has stored it and not yet sent; a cut has
used a number up, which then is missing in front of a first line. That one
thread at most is at those steps needs both invariants above: threads belong to
streams that called Transmit, and one of a stream holds its mutex.

### Depayloader and stream (`UncompressedStream_proofs`)

Of the receiver alone: `TypeCorrect`, for packets with any lines, those behind
the buffer included; `Quiet` (`QuietAfterStop` is inductive as it stands);
`FrameFlag` (`FlagMeansFrameEnd`): `FlagInv` follows `last_scan_line` from the
packet that set it to the flag, and `EndShown` says that the buffer still shows
that packet, unless a timeout has blanked it.

`StreamReceives` (`StreamSpec => Spec`): a step of the stream is a step of the
receiver or leaves it alone, an arrival being a packet the network may deliver.
What is proved of the receiver therefore holds in the stream.

`StreamRefinesChannel` (`ImplementsChannel`) rests on `StreamInvariant`, which
follows a line from end to end. `TransmitterInv`: calls are given frames 1, 2,
..., and a call is over before the next one begins. `WireInv`: what is on the
wire was sent and is there in ascending order; what is queued or stored was on
it, each row in the place of its number. `ShowInv`: a frame that is announced
has its last line in the buffer. These hold under any reordering. Two more hold
until the network reorders: `OrderInv` (the queue ascends, nothing of it or of
what the network may still bring in turn is older than the buffer) and
`NewerInv` (the buffer is never behind the picture, and an announced frame is
newer than the one shown). Loss only makes the inequalities strict, which is why
it needs no case; repetition is reordering by `newest`.

`WholeFrames` (`WholeFrameWithoutLoss`): while each packet arrives once and in
its turn the inequalities become equations. `Gapless` takes the wire, with the
line to be sent next as its last, and says that each line follows the one
before, that the socket holds the delivered lines that were not taken yet, and
that the buffer holds every line before those. `WholeInv` is inductive with
`StreamInv`.

### Announcer (`SapAnnouncer_proofs`)

`TypeCorrect`; `StreamsUnique` (`UniqueStreams`); `Quiet` (no announcement
thread is left behind the join of `Stop`; no run asks it) and `StopSilences`
(`StopSilencesStreams`), from `Lifecycle`, which relates the client's place in
`Stop` to the thread and to the last packet of each element the sweep passed.

`DeletedSilent` (`DeletedFallsSilent`, at most one announcement behind a
deletion): `SilentInv` has to know why a second one cannot follow. A live
stream has no late announcement (`LiveInTime`); an element that the thread has
found live and is about to send has none yet (`SendInTime`); the pass stays in
the vector's memory (`PassInBounds`); and behind the end of the vector, where a
pass may still walk while `DeleteAll` clears it, there are deleted elements
only, or elements whose deletion is still to be sent and that have no late
announcement (`TailDeleted`), each key once (`ClearingUnique`).

### Listener and discovery (`SapDiscovery_proofs`)

Of the listener alone: `TypeCorrect`; `Quiet`; `StoredFirst`
(`StoredBeforeCalled`); `CalledOnce` (`CalledOncePerMessage`), from an
invariant on the callbacks the walk has passed and on which of the two
conditions of its body comes next. The number of calls due is one but for the
callback for all sessions and a message that names none, where it is two.

`DiscoveryListens` (`Discovery => Spec`) makes these hold of the composition.
`DirectoryTracks` (`DirectoryTracksAir`): the property speaks of a listener
that has nothing left to do; `TrackInv` says of any moment where the last word
about a session is. The youngest queued message about it is that word, and
when none is queued the thread has it in hand, or the map shows it. The map is
written a member at a time, so "shows" is only claimed while the thread holds
nothing about the session.

### GStreamer receivers (`GstDepayloader_proofs`)

`TypeCorrect`. `StoppedReceiverIsQuiet` (`StoppedIsQuiet`): `StateInv` says
what `state_` means for the pipeline, in a receiver that tests it, between the
calls and inside `Stop`; `QuietInv`, that a pipeline that does not play has no
callback running and no flag up.

`CallbackFits` (`CallbackDescribesBuffer`): `PictureInv` follows a picture
through the streaming thread's steps, each setter included. That the encoding
reported is the right one is a question of the comparison order, which
`FirstHit` and `ReportedBytes` settle for the eight tables; what is left is that
a padded row is no shorter than its pixels, and no longer where they fill whole
groups of four bytes (`AlignedBounds`).

`ReceivedFrames` (`ReceivedFrameIsSound`, an action property of the calls that
return a frame) from four invariants. `PointerInv`: an allocation never shrinks
below what was reserved, and the one a waiting `Receive` read its pointer from
is the current one unless the buffer has grown beyond that. `DescriptionInv`: a
picture that is flagged is described by the stream, but between two setters, in
the receivers that read the description behind the wait and whose `Stop` clears
the flag. `TakingInv`: the fields that `Receive` has read one by one are those
of the picture in the buffer as long as no setter was at work since it saw the
flag. `BlankInv`: a frame that is flagged was zeroed by a timeout that raced its
copy or not at all. `CallTables`, `ReceiverTables` and `FormatTables` are all
the argument needs of the tables.

### GStreamer senders (`GstPayloader_proofs`)

`TypeCorrect`; `AcceptedFramesSound` (`TransmitSound`): `StartedInv` ties
`started_` to the pipeline, and `QueueInv` empties the queue of a stopped one.

### Capture programs (`CaptureYuyvClass_proofs`)

`TypeCorrect`, `BuffersAndImages` (`CaptureSafe`) and `Signals`
(`SignalsLoseNoImage`), from `CaptureInv`, which says of each step of `main()`
what is set up, which buffers the device has and how many images are saved.
That a mapped buffer is never refused, for instance, needs `BufferInv`: exactly
the buffers from the loop's index on are still out. `Signals` needs that the
device streams at no call that is not made again: not at `open`, not at the
selection of the input, not at `close`, and at a `read` only when it does not
stream into the program's buffers.

### Wrappers, test cards, transmit program (`Applications_proofs`)

`Lifetime` (`ReceiverLifetime`): `LifetimeInv` adds that a receiver which still
waits for its first announcement was never opened and has no callback between
its test of `deleted` and its `Start`, and that a callback in progress is for a
receiver that exists: its destructor joins the listener's thread.

`Cards` (`CardsSound`), for images of any size in any encoding. In the encodings
of whole bytes the still cards need that the bytes drawn are within the pixels
of the image (`WithinImage`); nothing is claimed of the bytes of the planar ones
(section 5). A card starts with U until an odd number of pixels was drawn
anywhere. The ball keeps its place over a change of the image, so its own
invariant `OnTheWay` may not mention a size: as long as every image it was drawn
in is at least 80 by 80, it is never above row 25, and when it moves up it is at
row 30 or below. With the upper bounds that `Moved` clamps it to, its disc of 24
rows stays in the image.

`Copies` (`CopiesWithinBuffers`): `ExampleInv` says which buffers a source has
behind its preparation; `ImageFits`, that no mode has more than the three bytes
a pixel that are allocated; `EncodedFits`, that what is transmitted by the
other payloaders is as long as what they read. Every access of the program is
recorded when it leaves its buffer, and four causes are left: a PNG file smaller
than the stream, a source that does not exist, a camera whose buffer is shorter
than what is copied from it or unmapped, and the row behind the frame.

### Only model-checked

The liveness properties, for which the prover has no fairness: `TransmitEnds`,
`StopEnds`, `QueuedFrameIsShown`, `LiveStreamsAnnounced`, `CallsReturn`,
`DueCallbackIsMade`, `LiveStreamFound`, `CallsTakeEffect`, `SignalEnds` and
`CaptureEnds`; and the violation of `CallbackGetsItsData`.

## 5. Divergences seen while modelling

One has a run that violates what a comment says (`listener_data`; PROJECT.json
quotes the line). Of the others, most are steps of the model, named here where a
property makes an exception of them; lines are those of the file named last.

Raw video:

* `rtp_uncompressed_payloader.cc:157`: line n, counted from 1, is read from row
  n counted from 0, one further than the receiver stores it
  (`rtp_uncompressed_depayloader.cc:227`): a picture is one row too high, and
  its last row is the memory behind the frame, which is read. `FrameChannel`,
  `WholeFrameWithoutLoss`, `BlockingSendsItsFrame` and `CopiesWithinBuffers` say
  so.
* `rtp_uncompressed_payloader.cc:179`: a detached Transmit reads the frame
  pointer that a later call has replaced; the thread outlives a destroyed stream
  (`UseAfterFree`).
* `:131`: the static sequence counter is increased under the mutex of one stream
  only; two streams lose or repeat numbers. `:164`: a number is used up by the
  packet whose `sendto` gives 0.
* `:142`: an encoding without a table entry throws inside the thread and ends
  the process.
* `:209`: the range check of the timestamp is made behind the cast to 32 bits
  and never fires (not modelled).
* `rtp_uncompressed_depayloader.cc:231`: a line number above the height, or a
  long offset, is copied behind the end of the buffer; nothing compares them
  (`Overruns`).
* `:184`: a datagram that is not RTP but has the marker bit raises the flag if
  the thread is stopped next (`strayed`). `:312`: a timeout zeroes a frame that
  has just become ready, and the flag is up over a blank buffer (`blanked`).
* `:348`: the waiting path of Receive leaves the flag up, and one frame is
  returned twice.
* `:289`: Stop joins a thread that blocks without a timeout when the socket was
  opened behind the thread's start. A second Start over a running thread ends
  the process; Close under one lets it go on with a descriptor that the process
  may have given to another file since.

SAP:

* `sap_announcer.cc:314`: one announcement may follow a deletion;
  `DeletedFallsSilent` bounds it. `:112`: `push_back` moves the vector beneath
  the thread's iterator (`dangling`). `:168`: DeleteAll clears the vector it
  iterates and sends only some of the deletions.
* `:182`: the guard for a socket that is not open never fires before the first
  `Start`; `:305`: each start forgets the last descriptor. `:144`: "Delete all
  matching sessions", but the loop returns at the first.
* `sap_listener.cc:390` and `:395`: two conditions that both hold of a message
  without a session name: the callback for all sessions is called twice for it.
* `:246`, `:273`, `:330`: a packet without "v=", or with a field that is no
  number, throws in the thread and ends the process.
* `:386`: announcements are copied while they are assigned, and keyed by name
  alone although name and address identify a stream; `:127`:
  GetStreamInformation does not look at `deleted`. A registration while the
  thread walks the callbacks changes the map it walks.

GStreamer classes:

* `h264/gst/open/rtp_h264_depayloader.cc:293`: Receive reads height, width and
  encoding one by one, without a lock, while the streaming thread sets them for
  the next picture (`:86`); what it returns may be one picture's height with
  another's width (`overtaken`). The classes that read them before the wait
  (`av1/gst/rtp_av1_depayloader.cc:245`) return those of an earlier picture,
  although `rtp/rtp_types.h:199` calls them "The frame resolution".
* A timeout of 0 waits for ever in the H.264 receivers with a software, OMX or
  VAAPI decoder, and returns at once in the others, although every header says
  "zero will wait forever" (`rtp/rtp_depayloader.h:135`,
  `av1/gst/rtp_av1_depayloader.h:95`). `CallsReturn` speaks of positive timeouts
  only.
* `h265/gst/vaapi/rtp_h265_depayloader.cc:102`: NV12 is reported, of which the
  tables say two bytes a pixel and a picture has one and a half, so that a copy
  of the frame reads beyond the buffer; so do the other receivers without a
  converter. `CallbackDescribesBuffer` is about the ones with a converter.
* Rows of RGB pictures are padded to four bytes, which nobody who copies height
  times width times 3 bytes (`qt6/QtRtpAv1Depayloader.cc:31`) accounts for: the
  picture is sheared, and cut off at the bottom. The same three bytes are copied
  of H.265's NV12 (`qt6/QtRtpVaapiH265Depayloader.cc:31`) and of raw video of
  any encoding (`qt6/QtRtpUncompressedDepayloader.cc:33`).
* The NVIDIA and VAAPI JPEG receivers reserve no memory, so that the pointer
  Receive() read before its wait is null or dangles (`PointerSurvivesWait`
  speaks of sizes that were reserved).
* The H.264 receivers test `rtph264depay` twice and `h264parse` never; the JPEG
  and NVIDIA classes and the AV1 receiver test nothing. Open() then succeeds
  over a pipeline that is not linked, and frames are accepted and never encoded
  (`AcceptedIsEncoded` is about the one sender that tests all it makes). When
  Open() fails, a Transmit behind it looks up an appsrc that is in no pipeline.
* A second Open() leaves the pipeline before it playing (`abandoned`).
* The NVIDIA sender wraps the caller's memory, so that a frame sent late shows
  the next picture; and its Close() waits for a message on a bus that its own
  stop has flushed.

Programs and wrappers:

* `example/v4l2/capture_yuyv.c:644`, `:626`: neither open() nor close() is made
  again when a signal interrupts it, nor is the selection of the input or a
  read(): each ends the program, though with no image lost that streams
  (`SignalsLoseNoImage`).
* `:357`: the index of a user buffer is not set, the second one is refused, and
  the program ends; the C++ program's `main.cc` never passes the method asked
  for on. Exits release nothing, a driver may shrink the format, and a failed
  SaveImage goes unnoticed.
* `v4l2/v4l2_source.cc:149`: width * height * 2 bytes are copied out of a
  mapping of the length the driver gave (`:98`), and `:134` unmaps three bytes
  for each pixel; VIDIOC_S_FMT (`:66`) may have made the image smaller. While
  the camera gives no image the program waits in CaptureFrame, whatever the
  signal.
* `example/rtp_transmit/transmit-example.cc:304`: the camera's image goes into
  one buffer and another is sent; `:336`: one frame more than asked for is sent;
  `:214`: height and width change places on the way to the camera. An image
  smaller than the stream is read beyond its end.
* `wrappers/rtp_sap_wrapper.h:103`, `:113`: width and height change places on
  the way to the card; `:90`: the comment numbers the patterns otherwise than
  the code at `:132`.
* `:247`: a destroyed receiver stays registered, and the next announcement
  dereferences it; a receiver registered by name is called with a null pointer
  (`crashed`). Its destructor stops the listener of all others. `:174`, `:250`:
  every destructor calls RtpCleanup(), which ends GStreamer for the objects that
  are left.
* `rtp/rtp_utils.cc:247`, `:285`: a card in a planar encoding (YUV420P, NV12)
  writes behind its buffer, as two bytes a pixel, or the chroma of an image of
  640 by 480, do not fit into one and a half. The ball leaves an image that is
  lower or narrower than it, since the clamp is unsigned (`narrow`); an odd
  number of pixels swaps the chroma of later cards (`swapped`); the grey scale
  card leaves the columns behind its eight bars as they were.

## 6. Not modelled

* Colourspace conversion and the colours of cards (per-pixel arithmetic, no
  state and no order), the pixel conversion and file writer of the capture
  programs, DumpHex and EndianSwap.
* SDP wording: messages are records, and of the parser its outcomes are
  modelled. The tables of encodings are modelled where sizes depend on them
  (`Encodings`).
* Offsets and lengths within a row of raw video, the width of a stream, the
  choice of the network interface, and the RTP timestamp.
* The pacing loops of the wrappers' Transmit and Receive, which forward to the
  payloaders; the receive example, a window around the receivers, whose signal
  handler stops and closes them from inside the signal.
* Qt, SWIG and Python bindings (they forward), unused stubs (`h264/native`,
  `h264/nvenc`, `h264/vaapi`), and GStreamer itself: a queue, a streaming thread
  and the decoders' formats stand for it, and that setting a pipeline to NULL
  waits for the streaming thread is its documented behaviour.
* Data races on plain flags are modelled as reads of either value, not as
  compiler reorderings.

## 7. Plan

Done: 1 payloader, 2 depayloader, 3 stream, 4 announcer, 5 listener,
6 discovery, 7 GStreamer receivers, 8 GStreamer senders, 9 wrappers and test
cards, 10 camera source and capture programs, 11 transmit program, 12 the
safety properties of every run as theorems, with the refinement of
`FrameChannel`. Next, in this order:

1. What implies a theorem of section 4 and is not stated yet: an abstract
   directory that `SapDiscovery` implements, an abstract vector of streams for
   the announcer.
2. The round trip of an encoding through the SDP tables as pure operators, with
   the lemma that it is lossless where the tables agree.
3. The receive example, composed with a receiver.
4. The receiver with offsets within a row, so that a stream of another width
   than the receiver's can be asked about.
