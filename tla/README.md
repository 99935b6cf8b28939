# A verification project for Seisconvert 2

Seisconvert 2 reads the SD cards of KUM ocean bottom seismometers and converts
them: `makeseed` writes one MiniSEED file per channel, `makezft` one ZFT file.
The tools are mruby programs (Ruby classes over C extensions).  Each of them is
sequential, so what is hard inside a run is not concurrency but long sequences of
frames: time stamps, lost samples, gaps, records that fill up, and what is left
on the disk when a run ends in the middle.  Between runs there is more: a run
works with two users' rights and finds the files that interrupted runs left, and
a Seismiks database is a file that several programs open at the same time.

## Inventory

| Component | State it keeps | Operations | What makes it correct |
|---|---|---|---|
| `Makeseed::Channel` (`mruby-bin-makeseed/mrblib/makeseed.rb:2-90`) | `@time`, `@time_offset`, the open `@record`, `@next_sequence_number`, its file | `time=`, `sample`, `sample_buffer`, `lost`, `done` | Every sample after the first time stamp reaches the file once, in order, at its real time |
| `Makeseed#run` (`makeseed.rb:146-289`) | the channels, the last voltage and humidity, the CSV file, the log | one branch per kind of frame; the end; the rescue | All channels stay aligned; a failure costs at most the open record |
| `Seed::DataRecord` (`mruby-seed/src/mruby_seed.c`) | a header and up to 1008 samples | setters that raise, `<<`, `push_sample_buffer`, `full`, `to_s` | Never more samples than fit; the header says what the data says |
| MiniSEED fields (`mruby-seed/src/seed.c`, `mrblib/seed.rb`) | none | decimal fields, BTIME, sample rate factors, blockettes | Written and read back unchanged |
| `KumSdFile` (`mruby-kumsd/src/mruby_kumsd.c`) | the stream, `pos`, `channel_count`, `last_address`, `base_time` | `read`, `goto_addr`, `read_frame`, `process`, `close` | Frames are read whole, in order, up to the end address |
| Headers (`mruby-kumsd/src/kum_sd.c`, `bcd_valid.c`, `parse_header`) | where the reader of the block stands, the struct | `kum_sd_header_read`, `bcd_valid`, `parse_header` | What the recorder wrote is read back; a damaged block is refused or read as it stands |
| `KumSd::File` (`mruby-kumsd/mrblib/kumsd.rb`) | the fields of the two headers, the skew | `next_file`, `each_frame`, `process` | All fields come from one pair of headers |
| `SampleBuffer` (`mruby-sample-buffer/src/sample_buffer.c`) | windows onto shared, reference counted storage | `new`, `slice`, `[]`, `[]=`, `each`, collection | Storage lives as long as a window onto it; a window stays inside |
| `Makezft` and `Zft` (`mruby-bin-makezft`, `mruby-zft/src/zft.c`) | one file per channel, templates | `add_channel`, `push_frame`, `close` | Lost samples are filled in, so that positions are times |
| Options (`mruby-bin-makeseed/tools/makeseed/options.c`, `makeseed.c`) | `argv` and `argc`, the option that waits | `parse_options`, `apply_option`, `main` | The last flag wins, operands keep their order, nothing runs after a wrong option |
| Privileges and directories (`mruby-setuid`, `mruby-mkdir`, the opening phase of `Makeseed#run`) | the effective user; the folder, the files and the log of the card, over many runs | `open_unprivileged`, `mkdir_p_unprivileged`, `mkdir_p` | Every path gives the effective user back; a file holds one channel of one run; the log is true |
| `Seismiks` (`mruby-seismiks/src/seismiks.c`) | an sqlite database in a file that other programs use too | `initialize`, `create_station`, `get_station`, `close` | The format is created whole or not at all; a station that has an id stays |
| sqlite3, lz4, xxhash | | | Third-party; sqlite's locks are the environment of `Seismiks`, the rest is left aside |

How they interact: `KumSd::File` loads two headers through `KumSdFile#read` and
sets the reader up.  `Makeseed#run` calls `each_frame` (or `process` with
`--fast`) and gets one frame (or buffer) per call of its block, in the order of
the card.  The block calls the methods of every `Channel`; a `Channel` fills a
`DataRecord` and writes it to its file.  Any failure is an exception that ends
the loop in the one `rescue` of `run`.

The repository has no tests; its documents are `README.md`, the help text of
`makeseed.c`, comments and error messages.

## Modules

### `SeedChannel` - one channel

Operators only, no variables: a channel is a record with the instance variables
that change, and each method of `Makeseed::Channel` is an operator that yields
the channel afterwards (`chan`) and what it wrote (`out`).

| Definition | Code |
|---|---|
| `Record`, `Push`, `PushBuffer`, `IsFull` | `data_record`, `DataRecord#<<`, `#push_sample_buffer`, `#full` (`mruby_seed.c:50-71, 184-246`) |
| `Channel`, `NewChannel` | `Channel#initialize` |
| `SetTime`, `Sample`, `Lost`, `Done` | `time=`, `sample`, `lost`, `done` |
| `TakeSlice` | one turn of the loop of `sample_buffer` |
| `Clock`, `NewRecord`, `WithRecord`, `Pending`, `Fits` | parts of these methods |
| `BTime` | `mrb_time2btime`: seconds, and tenths of a millisecond that are rounded |

Abstractions: time is counted in sample intervals, so the floating point sum
`@time + @time_offset` is exact; a sample is identified with the time at which
it was really taken, which is what the properties compare the record's header
with.  Only in the header a time is in microseconds (`Micros` of `Makeseed`).  The layout of a record is left out: it has room for `Capacity` samples.

### `Makeseed` - the run

`makeseed` without `--fast`, from the first frame on.  One action per branch of
the loop in `Makeseed#run`, the end of the loop (`EndFrame`) and the failures.

| State | Code |
|---|---|
| `chan`, `file` | the `Channel` objects, the records in their files |
| `edata`, `rows` | `edata`, the lines of `engineeringdata.csv` |
| `status` | where `run` is: in the loop, past `done`, in the `rescue` |
| `left`, `tick`, `refused`, `room` | the card and the disk (below) |
| `stamps`, `silent`, `heard` | history: what was read, for the properties only |

The card is the environment.  `tick` is the real time of the next sample; each
frame that is read reveals what the recorder did: took a sample, wrote its time,
lost samples and said so (`LostFrames`), lost samples and did not say so
(`OtherFrame(gap)`, a reboot or a `FrameNumber` that jumps), and so on.  Assumed
of it: a `Timestamp` frame holds the real time of the sample after it, and the
recorder's clock does not run backwards.

Three things can fail, and all end in the `rescue`: the card can not be read
(`ReadError`), a new `DataRecord` refuses its name, rate, correction or number
(`RecordRaises`), and the disk is full (`room`).  `EachChannel` is one
`channels.each`: the channels before the one that raises are done, the one that
raises and those after it are not.  The object of the channel that raised is
left as it was, because nothing looks at it again.  A write to a full disk
raises and leaves nothing behind; a partly written record is not modelled.

### `MakeseedFast` - the run with `--fast`

The loop of `KumSdFile#process`, the block that `Makeseed#run` gives it, and
`Channel#sample_buffer`, one turn of its loop per action.

| State | Code |
|---|---|
| `number`, `buffer` | `sample_number`, the samples up to `pos` in each channel's `sample_buffer` |
| `queue` | the `SampleBuffer` objects that the present frame makes `process` yield, and of the first one what the loop of `sample_buffer` has not taken |
| `chan`, `file`, `closed` | the `Channel` objects, their files, how far `each_value(&:done)` is |
| `status` | the loop of `process`, its label `end`, the loop over `done`, the end, the `rescue` |
| `left`, `tick`, `refused`, `room` | the card and the disk, as in `Makeseed` |
| `missing`, `unknown`, `hidden`, `heard` | history, for the properties only |

| Action | Code |
|---|---|
| `Timestamp`, `DataFrame`, `LostFrames`, `FrameNumber`, `OtherFrame`, `EndFrame`, `ReadError` | the branches of the loop in `process` (`mruby_kumsd.c:473-521`) |
| `DropBuffer`, `FillRecord` | `sample_buffer` (`makeseed.rb:47-75`) without and with a time |
| `Return`, `CloseChannel` | `process` returns; `done`, channel by channel |

`process` pushes a sample and yields a full buffer channel by channel.  The
buffers of all channels are equally full, so the model pushes the sample to all
of them and then yields them in order; between the two the code touches nothing
that the block can see.  The block copies what it needs, so that the buffer can
be filled again; `TakeSlice` has values where the code has windows.

Assumed of the card, beyond what `Makeseed` assumes: a `FrameNumber` frame
counts the samples that the recorder took, those that were lost included, and
the names of the channels differ (buffers go to a channel by its name).

### `SampleBuffer` - shared storage

The objects of class `SampleBuffer`, in memory: `buffer` is the C struct of each
object (a window), `shared` the storage in each block.  `New`, `Slice` and
`Destroy` are the constructors, `slice` and the finalizer that the garbage
collector calls, in any order.  `Ref`, `Unref` and `Fits` are the C functions
and tests of these names or places.  `origin` is history: the window that
a slice was taken of.

Left out: the samples (`[]`, `[]=` and `each` stay inside `len`, so what they
touch follows from the window), the channel and sample number of the storage,
and `initialize` called a second time, which nothing in the repository does.

### `KumSdFile` - reading a card

`KumSd::File` over the C class `KumSdFile`: a client calls `next_file`,
`each_frame`, `process` and `close` in any order, and goes on when one raises.
Positions are in words of four bytes, from the start of a recording's data area.

| State | Code |
|---|---|
| `card` | the recordings: frames, end address, what is valid in the headers |
| `status` | no constructor yet, no iteration, in `each_frame`, in `process`, closed |
| `fields` | the recording each group of attributes was taken from: those set at once (`data`), `base_time`, `last_address`, sync times, `@skew`, names and comment |
| `source`, `next`, `pos` | the recording that is read, the frame where the stream stands, `file->pos` |
| `loaded`, `yielded`, `ended` | history: `next_file` did not raise; the frames handed out; the method that came to its end |

| Action | Code |
|---|---|
| `NextFile`, `Load` | `next_file` (`kumsd.rb:33-74`), the first time by `initialize`; it raises without headers (or with bad ones), in `base_time=`, or in `ClockSkew.new`; `channel_count=` cannot raise, because the header has limited the number before |
| `EachFrame`, `Process`, `Rewind` | the beginning of `each_frame` and `process`; `goto_addr` |
| `ReadFrame`, `Return`, `CardEnds`, `ReadError` | one turn of the loop: `read_frame` (`mruby_kumsd.c:174-268`), and the same tests in `process` |
| `Leave`, `Close` | the block leaves the loop or raises; `close` |

`process` rewinds to the first pair of headers of the card whatever `next_file`
has loaded, and computes its own base time.  A sample counts as handed out in
`process` when it gets into its buffer; `MakeseedFast` says what becomes of it.

Assumed of a card: each frame lies behind the one before it (`Contiguous`).

### `KumSdHeader` and `BcdTime` - one header

A header is a block of 512 bytes with sections in a fixed order, each behind a tag
of four letters.  `kum_sd_header_read` walks through it with an offset, and
`parse_header` makes a hash of the struct, or raises "Malformed KUM SD header".

| State | Code |
|---|---|
| `written`, `block`, `bytes` | what the recorder wrote, the block as it is now, the six bytes of its times |
| `o`, `at`, `nc` | the offset, the section that is read, `channel_count` |
| `header` | the struct, which is on the stack and holds anything at the start |
| `result`, `hash` | whether it is read, refused or handed to Ruby, and as what |

| Action | Code |
|---|---|
| `LastByte`, `TagMissing` | the tests for the zero at the end and for each tag |
| `Number`, `Sync`, `ChannelCount`, `Gain`, `Text`, `ChannelNames`, `Name`, `Comment` | the sections (`kum_sd.c:17-130`); one `Name` per channel |
| `ParseHeader` | `parse_header` (`mruby_kumsd.c:52-105`) |
| `GoOn`, `SkipZeros` | the macros `ADV_O` and `SKIP0` |

A tag, a number and a time take one place each instead of 1 to 14 bytes; a
letter of a text and a zero are places too, because it is texts and the zeros
behind them that move the sections.  So the byte order of numbers is left out.
`Encode` is the reference: the layout of a header, written down as a sequence.
`Describes(h, b)` says that the block `b` begins with the header `h`.  What a recorder
can write is `Written`: texts without a zero in them, a gain for each of 1 to 9
channels, a time of synchronisation or none.  `Places` are the values that a
place may have; the tags, the counts and the zero are among them, so a text may
look like a tag.

`BcdTime` has no state.  `BcdValid` and `FromBcd` are `bcd_valid` and the conversion
in `parse_header`; `CalendarTime` is the reference, which says what six bytes mean
by the calendar without looking at how they are tested.

### `MakeZft` - the run of `makezft`

| State | Code |
|---|---|
| `card`, `skewed` | the frames, fixed from the beginning because they are read twice; whether there is an `sd.skew` |
| `status`, `next` | where `run` is, the frame that is read next |
| `fill` | the turns left of `f.lost.times` |
| `start`, `t`, `volt` | `start_time`, `t`, `edata`: the frames that they are of |
| `zft`, `file`, `rows` | `channel_count` and `headers_written` of the C struct; headers and frames in the ZFT file; lines of engineering data |

| Action | Code |
|---|---|
| `Scan`, `Spin` | `while !t` (`makezft.rb:81-87`), which has no end on a card without a `Timestamp` |
| `Create`, `AddChannel` | the files, `add_channel` for each channel (it counts the channel, then writes its header) |
| `EachFrame`, `Sample`, `Timestamp`, `LostFrames`, `Fill`, `VoltageHumidity`, `Temperature`, `OtherFrame` | `each_frame` and its block; `Fill` is one turn of `f.lost.times` |
| `Close`, `Fails` | `zft.close`; any exception, which ends the run in its `rescue` |

`Push` has the tests of `push_frame` as guards: if they could fail, the run would
stop and `Ends` be violated.  A frame is in the file when `fwrite` has taken it;
what `fclose` may lose on a full disk is not modelled (`zft_close` ignores it).

Assumed of a card: each frame knows the samples before it (`at`) and how many of
them are missing without a `LostFrames` frame (`gone`).

### `ParseOptions` - the command line

`parse_options` and the `main` around it.  A word of the command line is a
record that says what `parse_options` looks at: whether it begins with dashes,
its name, its letters.  The variables are those of the function (`i`, `j`, `c`,
`option` for `o`), with `ended` for the inner loop behind `--`; `args` keeps the command line as
it was, because the function overwrites `argv` while it reads it.

| Definition | Code |
|---|---|
| `Apply` | `apply_option`; callbacks exit, as `help` of `makeseed.c` does |
| `NoArgument`, `LastOption` | `if (o) apply_option(o, 0, l)` before another option and at the end |
| `LongOption`, `ShortOption` | the branches of the loop; one `ShortOption` per letter |
| `TakeArgument`, `Keep` | the branch for words that are no options; `Keep` is also the loop behind `--` |
| `EndOfOptions`, `Clean`, `Main` | `--`; the last loop; `makeseed.c:57-63` |

The second part of the module says what the words mean without saying how they
are read: `Positional(k)` looks at the word `k` and the one before, `Mentions`
is the set of options on the command line, `ValueOf` and `Outcome` are what
each of them is for.  No option of `makeseed` takes an argument; the instance
adds two that do, because `parse_options` is written for them
(`PARAMETER`, `PARAMETER_DEFAULT` in `options.h`).

### `OutputFiles` - the folder of a card, run after run

The opening phase of `Makeseed#run` and where its records go, over any number of
runs on the same card by different users, with and without `--fast`, each of
which may be interrupted at every step.  Which samples are in a record is left
to `Makeseed`; here a record is the run that wrote it, its channel and its place.

| State | Code |
|---|---|
| `names`, `who`, `fast` | `sd.channels`, the users who started the runs, `options[:fast]` |
| `at`, `job` | where `run` is, and with which of the files it opens (`Plan`) |
| `level`, `call`, `saved`, `failed` | inside a helper: the folder `mkdir_p` is at, which helper, its `e`, whether the call raised |
| `euid` | the effective user of the process |
| `dirs`, `files`, `said` | on the disk: the folders, the files, the "Creating ..." lines of `events.txt` |
| `pos` | the file offset of each channel's handle |

| Action | Code |
|---|---|
| `Start`, `OpenCard`, `Finish`, `Fail`, `Exit` | `run` from its start to its end or its `rescue` (`makeseed.rb:146-289`); `Exit` is also the kill |
| `Lower`, `Raise` | `e = geteuid`, `seteuid getuid`; the `ensure` with `seteuid e` (`setuid.rb:2-23`) |
| `MakeDir`, `CallFails`, `OpenFile` | the `mkdir` of each folder of the path (`mruby_mkdir.c:9-40`), `File.open(name, 'wb')` |
| `LogCreated` | `log "Creating ..."` (`makeseed.rb:170-205`) |
| `Write` | a record of a channel, into its handle (`makeseed.rb:249-257` and `Channel`) |

`Kept` is a difference between the modes: the handles are in an array, or
with `--fast` in a hash by name, where the second of two channels with equal
names replaces the first (and then gets the buffers of both; that the records of
such a file are of a mixture is not modelled, `OwnFile` is about different names).

Assumed of the environment: `File.open(..., 'wb')` makes a file or empties the
one that is there; a record is written whole, at the handle's offset; nobody else
changes the folder, and nobody removes it between two runs.  A user may write in
folders and files of his own, and `Root` (the owner of the installed program)
everywhere.  Two runs at the same time are not modelled.

### `Seismiks` and `SeismiksFile` - the database

`Seismiks` has any number of objects of the class, in one program or several, on
the same file.  `disk` is the file as it was committed last, `conn` the
connection of each object (where it is in its method, its lock, its uncommitted
copy, what it read, and `left`: an `INSERT` that was not finalized), `given`
what `create_station` returned.

| Action | Code |
|---|---|
| `ReadId`, `CheckId`, `ReadVersion`, `CheckVersion` | `initialize` (`seismiks.c:37-81`): `application_id`, then `user_version`, each read and then looked at |
| `SetId`, `SetVersion`, `CreateTable`, `ExecFails`, `Rollback` | `sqlite3_exec` of `seismiks_format_1.sql`, statement by statement, and the `ROLLBACK` after it |
| `CreateStation`, `CreateBusy`, `CommitBusy`, `NoCommit`, `Return` | `create_station` (`seismiks.c:92-120`) |
| `Prepare`, `Commit` | the end of a transaction, for both |
| `GetStation`, `EndGet` | `get_station` (`seismiks.c:122-151`) |
| `Close`, `Exit` | `close` and the finalizer; the end of the program, wherever it is |

sqlite is external: locks (`shared`, `reserved`, `pending`), a commit that is
atomic, and `SQLITE_BUSY` at once, because no busy handler is set.  The actions
follow what the vendored `sqlite3.c` does with one rollback journal.

`SeismiksFile` is the abstract specification: a file gets its format as a whole
or not at all, the file of another program or version is never touched, and
stations are only added, one at a time.  `KeepsFile` says that `Seismiks`
implements it with `file <- disk`, whatever the programs do and wherever they
stop.

### `SeedArchive` - what the files are

The abstract specification: each file only grows at its end, one record at a
time, the records are numbered from 1 without a gap, none is empty or overfull,
and no two claim the same moment.  `Makeseed!KeepsArchive` says that `Makeseed`
implements it, where `ArchiveOf(file[c])` is the file without the samples.

### `Makeseed_proofs`, `SampleBuffer_proofs`, `KumSd_proofs`, `MakeZft_proofs`, `ParseOptions_proofs`, `Seismiks_proofs`, `OutputFiles_proofs`, `MakeseedFast_proofs`

The theorems below.

### `MCMakeseed`, `MCMakeseedFast`, `MCSampleBuffer`, `MCKumSdFile`, `MCKumSdHeader`, `MCMakeZft`, `MCParseOptions`, `MCSeismiks`, `MCOutputFiles`

The instances for TLC: the sets of cards, blocks, refusals, disks, command lines,
users and files, and the symmetry of objects.

### Variants with mistakes

An operator whose name ends in `_bug...` is not part of the model.  It is the
definition after it with a plausible mistake in it.  `PROJECT.json` lists which
property rejects which: each of the checked properties fails when one of these
replaces the definition, which shows that the property does depend on that code.

## Properties

Of `Makeseed`:

| Property | Says | Violated by |
|---|---|---|
| `TypeOK` | types; the open record always has room, so `<<` never raises "DataRecord is full" | looking at `full` before instead of after the push |
| `TimesTrue` | start time + position is the real time of each sample, across time stamps and lost samples, unless samples went missing unreported | `time=` without the reset of `@time_offset` |
| `TimesRead` | the time that a reader computes from the header of a record (`BTIME`) is that of the sample within half a tenth of a millisecond, also where rounding gives 10000 tenths, which is not carried | rounding down |
| `NothingLost` | each sample after the first time stamp is in the file or in the open record, and in the file at the end; samples are in the order in which they were taken (`Ordered`), none is there twice | `lost` that drops the open record instead of writing it |
| `AbortLoss` | an aborted run costs a channel at most one record of samples | a record that is written too late |
| `Aligned` | the files of all channels hold the same records; an aborted run leaves later channels behind by one record at most | a failure that is rescued per channel |
| `RowsTrue` | a line of engineering data has the latest time stamp before it and an older voltage | `time=` that only takes the first time stamp |
| `KeepsArchive` | `Makeseed` implements `SeedArchive` | a number that is not incremented |
| `EverySampleLands` | a sample that was read gets into all files, or the run is aborted | `done` that writes nothing |

Of `MakeseedFast`:

| Property | Says | Violated by |
|---|---|---|
| `TypeOK` | types; a buffer always has room for the next sample, no empty buffer is yielded (`slice` would raise) | a buffer that is yielded one sample too late |
| `Pipeline` | file, open record, yielded slices and buffer together hold every sample since the clock was set, once and in order | a flush that does not empty the buffer |
| `TimesTrue` | the time of each sample is too early by exactly as many samples as are missing since the clock was set, reported or not (`MissingIn`), and true if none is | a loop that counts one sample per slice |
| `Gapless` | samples from both sides of a gap that `process` knows of are never yielded together | `LostFrames` without the flush |
| `AbortLoss` | a channel's file lacks at most a buffer and the open record, less one sample; the bound is reached | `sample_buffer` without the write of a full record |
| `KeepsArchive` | `MakeseedFast` implements `SeedArchive` | a `Timestamp` that is taken in the middle of the card |
| `Ends` | the run ends | `full` that is true one sample late, so that a turn takes nothing |

Of `SampleBuffer`:

| Property | Says | Violated by |
|---|---|---|
| `TypeOK` | types; no window is empty or begins before its storage | `slice` without the test of the sign |
| `Counted` | storage without windows is freed; the count is the number of windows | `slice` without `ref` |
| `Inside` | storage is there as long as a window onto it, and the window ends inside it | a test that forgets the offset |
| `SliceInside` | every slice is inside the buffer it was taken of | the code itself, see below |

Of `KumSdFile`:

| Property | Says | Violated by |
|---|---|---|
| `Faithful` | frames that are handed out are those of the recording, whole, in order, up to its end address and an End frame | the end address tested only before a frame, not inside |
| `Complete` | an iteration that came to its end handed out all of them | a method that does not go back to the start |
| `Coherent` | after a `next_file` that returns all attributes but `@skew` are those of one recording; after one that raises, and for `@skew` always, each group of attributes is that of the latest recording whose headers could set it: base time and sync times with a valid start time, the names unless both sync times are the same, `@skew` with two sync times | `next_file` that leaves the sync times alone if one is missing |
| `OwnBase` | time stamps count from the start of their own recording if that is valid, else (`each_frame` after a `next_file` that raised) from that of the latest one before it whose start is | `next_file` that does not set `base_time` |

Of `KumSdHeader`:

| Property | Says | Violated by |
|---|---|---|
| `ReadsBack` | a header that a recorder wrote is read as it was written, whatever was on the stack and however its texts are padded, and refused only if a text, the number of channels or the whole does not fit; its times are those of the calendar, or none | a sync time that is not cleared if there is none; a year 00 that is no leap year |
| `Described` | what is read from any block, also a damaged one, is what stands there: no section is skipped, shifted or read twice | a last byte that is not looked at |

Of `MakeZft`:

| Property | Says | Violated by |
|---|---|---|
| `PlacesTrue` | start time + place (`ReadAt`) is later than the real time of each frame (`TakenAt`) by exactly the samples before the first `Timestamp`, and earlier by exactly those that went missing silently behind it | copying from where the scan stopped |
| `Copied` | every sample is in the file, and a marked frame for every lost one, behind the headers of all channels | `times` that forgets the last |
| `RowsTrue` | a line of engineering data has the latest voltage and time stamp, or the first | a `Timestamp` that does not set `t` |
| `Ends` | the run ends if there is a `Timestamp` on the card; without one it never gets past the scan, and only a failure ends it | a copy that ends at an EndFrame only, not at the end address |
| `SkewNoted` | the header has the skew, if there is one | the code itself, see below |

Of `ParseOptions`:

| Property | Says | Violated by |
|---|---|---|
| `WordsKept` | `argv` ends up with the positional arguments, all and in order; until they are read, words are as they were | words that are moved to where the reading is |
| `LastOneDecides` | a variable has the value of the last option that sets it, with the argument that belongs to it | an argument that begins a letter too early |
| `FirstExit` | the program exits at the first option that is wrong or asks for help, and runs only if there is none and a file | a missing argument that is not noticed |

Of `Seismiks`:

| Property | Says | Violated by |
|---|---|---|
| `Opened` | an object that `initialize` returned looks at a complete file of version 1, also if another program was creating it at the time | a version that is not looked at |
| `Released` | an object that failed to open, or is between two calls, keeps nobody out, as long as no `create_station` has failed on it | no `ROLLBACK` after a failed `sqlite3_exec` |
| `StationsTrue` | the stations whose ids were returned are in the file, each under its id, whatever other programs did, but those created behind a failed `create_station` | counting the rows instead of asking for the last id |
| `KeepsFile` | `Seismiks` implements `SeismiksFile` | a format without its `BEGIN` |
| `StationStored` | a station whose id was returned is in the file after the program ended | the code itself, see below |

Of `OutputFiles`:

| Property | Says | Violated by |
|---|---|---|
| `TypeOK` | types; `mkdir_p` never goes past the last folder, nor `run` past its plan | a loop with one folder too many |
| `Unprivileged` | the effective user is that of the run inside the helpers and the owner's everywhere else, also after an exception; what is made or emptied on the disk is of the run's user, or one he may write for | a helper without `ensure` |
| `OwnFile` | if all names differ, a file holds the records of one channel of the run that opened it last, each once and in order, and nothing older; during the frames none is missing | opening for update instead of with `'wb'` |
| `LogTrue` | whatever the log says was created is there, and of the run that wrote the log, also after interrupted runs and runs in the other mode; past the opening, the log lists all files | a log that is appended to |

`TypeOK` of `ParseOptions`, `MakeZft`, `KumSdFile` and `Seismiks`, `SampleBuffer!SliceOfWhole` (a slice of a
buffer that begins with its storage is inside that buffer) and `KumSdFile!InStep`
(`file->pos` is where the stream stands) are in no run; they are proved.

Unlike `makeseed`, `makezft` keeps the samples before the first `Timestamp`.  They
come first in the file, whose start time is that of the first `Timestamp`, so
all times are late by as many samples.

In the fast run times can be wrong.  `process` tells the block nothing about lost
samples, `run` never calls `lost`, and of the time stamps it takes only those
before the first sample.  So from the first gap on, reported or not, all times are
too early, until the end of the card; `TimesTrue` says by how much, for every
sample.  `makeseed.c:25-26` calls the mode experimental and faster.  Also, a card
whose first `Timestamp` comes after a sample gives empty files: `Pipeline` says so
in its first line.

`TimesTrue` of `Makeseed` has the condition `Timed`: between the sample and the latest time
stamp before its record, no sample is missing unless a `LostFrames` frame said
so.  This is not a weakness of the statement but what the code does: it ignores
`FrameNumber` and `Reboot`, so after a silent gap its clock is behind until the
next `Timestamp`, and a record that is open at that `Timestamp` keeps its start.

## Runs

| Run | Bounds | Shows |
|---|---|---|
| `makeseed` | 2 channels, 2 samples per record, at most 2 records, cards of up to 6 frames, up to 2 samples lost and 1 silently; names refused for a channel, corrections refused from a time on; disks with room for 1, 3 and any number of records; a sample every 333,290 microseconds, the first at 0.6667 seconds | all properties of `Makeseed`, the refinement, and `EverySampleLands` under weak fairness, over 669,259 states |
| `makeseed_fast` | 2 channels, buffers of 3 and records of 2 samples, at most 2 records, cards of up to 7 frames, gaps of one sample; refusals and disks as above | all properties of `MakeseedFast`, over 365,838 states |
| `sample_buffer` | 4 objects, 2 blocks, buffers of up to 3 samples | all properties of `SampleBuffer` but the last, over 19,209 states up to symmetry |
| `slice_of_slice` | the same | `SliceInside` is violated |
| `kumsd` | cards of one recording of up to 4 frames (3 or 4 words) with the end address inside or behind the last frame, or without a valid start time, or with equal sync times; of two recordings of up to one frame | all properties of `KumSdFile`, over 428,573 states |
| `kumsd_header` | blocks of 37 places, texts of less than 2 letters, up to 2 channels; headers with texts that are empty, full or too long, with tags within texts, up to 3 channels, each of three kinds of sync section, padded or cut; twelve of the blocks with any one place changed to any of six values; one block with 2,048 different times | all properties of `KumSdHeader`, over 76,151 states |
| `makezft` | 2 channels, all cards of up to 5 frames, `LostFrames` of 0 or 2, silent gaps of 1 | all properties of `MakeZft` but the last, over 1,378,478 states |
| `makezft_skew` | 1 channel, up to 2 frames | `SkewNoted` is violated |
| `parse_options` | all command lines of up to 4 words out of 16, six options | all properties of `ParseOptions`, over 339,551 states |
| `seismiks` | 3 objects, a format of 2 tables, up to 2 stations; an empty file, a file with a table in the way, of another program, of another version, a complete one | all properties of `Seismiks` but the last, over 867,045 states up to symmetry |
| `seismiks_left` | 2 objects, one table | `StationStored` is violated |
| `output_files` | 2 channels with different or equal names, 3 users (the program's owner, the owner of the directory, another one), 3 runs with or without `--fast`, 2 records per channel | all properties of `OutputFiles`, over 239,091 states |

Why the bounds are enough: six frames hold a time stamp, a record that fills up,
a second one that is cut by `LostFrames` or by a new time stamp, and the end or
a failure after that.  Two channels are enough for one to be before and one
after the channel that raises.  `MaxSequence = 2` makes the third record run
out of numbers.  `Room = 1` fills the disk between two channels of one pass,
`Room = 3` in the second pass.

The fast run has a buffer that is longer than a record and no multiple of it, so
that a slice ends in the middle of a record and a record in the middle of
a slice.  Seven frames hold a time stamp, a full buffer, a gap and a buffer that
is cut by the gap or by the end.

Four objects hold a buffer, a slice, a slice of the slice and an object of the
other block; two blocks let one be freed and used again while the other lives.

Four frames let an unknown one, a cut one and an End frame lie before and behind
one that is handed out; two recordings are all that `next_file` can mix up.

A block of 37 places holds the longest header of the instance with its padding,
or cuts it in the last section; a change of one place turns tags into letters,
ends texts early, joins them with the next section and makes counts wrong.  The
times are the days around the ends of months of six years, existing or not, and
all combinations of hours, minutes and seconds around their limits, with digits
that are not decimal among them.

Five frames hold two time stamps, or a time stamp and what matters on both sides
of it.

Four words hold an option, its argument and a word to keep on either side of
them or of `--`; the words have flags, clusters of letters, both kinds of
parameters alone and with a value, and options that are not known.

Three objects let a reader and a writer keep a third one out; two tables leave
a file that is half made between `SetVersion` and `Commit`; two stations can be
created by different objects in both orders, or one behind the other on an object
with an `INSERT` left.

Three runs are one that gets to its end, one that is interrupted anywhere behind
it, and one that finds what both left, in every combination of users and modes.
With two records per channel the file of a run that was interrupted early is
shorter than the one it replaced.

The times are chosen so that starts of records are rounded up, rounded down, and
rounded to 10000 tenths of a millisecond.

Deadlock is not checked in the runs of `makeseed`, `makezft`,
`parse_options`, `kumsd_header` and `output_files`, whose number of runs is
bounded, nor in `kumsd`: a client may stop after `close`.

### What `slice_of_slice` shows

`mrb_sample_buffer_slice` raises "Slice must be completely inside the buffer"
(`sample_buffer.c:157`) unless the slice fits into the buffer it is taken of.
It then sets `b->offset = offset` (line 165) without adding the offset of that
buffer, so that the slice of a slice is counted from the start of the storage:
after `a = b.slice(1, 1)`, `a.slice(1, 0)` is the first sample of `b`, not of
`a`.  Windows stay inside the storage all the same (`Inside`), and `makeseed` only
slices buffers with offset 0 (`SliceOfWhole`).

### What `makezft_skew` shows

The headers of a ZFT file have a field `C28 SKEW IN MICROSECS` (`zft.c:103`).
`add_channel` writes it if the skew is a Fixnum (line 233), but `run` passes
`sd.skew_time_skew`, a Float in seconds (`kumsd.rb:63`).  The field is always
empty.

### What `seismiks_left` shows

`create_station` raises "Could not create station" (`seismiks.c:113`) when
`sqlite3_step` does not return `SQLITE_DONE`, and when that is because another
program has the lock, the `INSERT` is left behind, neither reset nor finalized.
sqlite counts it as an active writer of the connection.  The next `create_station`
on that object can succeed and return an id, but the end of its `INSERT` does not
commit, because the other one is still active: the station is visible to this
object only, the `RESERVED` lock keeps all other writers out, and all is gone
when the program ends.  `close` does not help: `sqlite3_close_v2` keeps a
connection with statements that are left.  So a program that tries again after
"Could not create station" loses everything it adds from then on.  The behaviour
of sqlite was confirmed with the vendored `sqlite3.c`.

### What was noticed besides

* `next_file` sets `@skew` only if both headers have a sync time (`kumsd.rb:65`).
  After a recording that has them and one that has none, `skew` is that of the
  first; `Coherent` says which one it is.  The tools call `next_file`
  only in the constructor and never see this.
* `String#as_bcd` returns `nil` "if the string is not a valid BCD string"
  (`bcd.rb:17`), but takes the byte `0a` for 0 and `1a` for 1, because `to_i` ends at
  the first letter.  Nothing calls it; cards are read with `bcd_valid`.
* `BTIME` counts tenths of a millisecond, and `mrb_time2btime` rounds, which gives
  10000 in the last 50 microseconds of a second, a number outside of the field's
  range.
  Who adds up the fields still gets the right time (`TimesRead`).
* `sample_rate_from_int` and `mrb_btime2time` are used nowhere; the latter counts
  days from 0 where the field counts from 1.
* Two channels of the same name share one file (`makeseed.rb:203`), although
  makeseed "creates a MiniSEED file for each channel" (`makeseed.c:14`): without
  `--fast` they overwrite each other's records, with it the buffers of both go
  through the later channel into one stream of records.  `OwnFile` has the
  condition that names differ.
* The test of `process` for a closed file, `!file && !file->f`, is never true
  (`mruby_kumsd.c:423`); a closed `KumSd::File` is not asked for frames by any tool.
* `get_station` returns `nil` for a station that is not there, and also when the
  file is locked.
* `base_time` is kept in a C struct that the garbage collector does not see; it
  lives because `@start_time` refers to the same object.

## Fairness

In `Makeseed`, `MakeseedFast` and `MakeZft`, `FairSpec` adds weak fairness of
`Next` (in `MakeZft` without failures, on which a run must not depend).  The
program is one thread that reads from a file; it goes on as long as the operating
system schedules it, and reads either return or fail.  Nothing is assumed of which
frame comes, except that the card has an end (`MaxFrames`).  The other modules
state no fairness: a client of `KumSd::File` or `Seismiks` need not call anything,
and a run of `OutputFiles` may be interrupted everywhere.

## Proofs

TLAPS proves, in `Makeseed_proofs`, for every number of channels, record
capacity, largest sequence number, disk, set of refusals and card:

* `TypeCorrect`: `Spec => []TypeOK`,
* `TrueTimes`: `Spec => []TimesTrue`,
* `TimesAreRead`: `Spec => []TimesRead`, for any start and interval in microseconds,
* `ArchiveKept`: `Spec => KeepsArchive`, the refinement.

Assumed are only the assumptions of the modules: there is at least one channel,
a record holds at least one sample, bounds are naturals, `None` is neither a
time nor a record.

`TypeOK` is inductive given what one pass over the channels does
(`EachChannelStep`).  Its one hard part is `room`: the writes that are done are
as many as there is room for, because each of them has fewer than `room` writes
before it (`FewChannels`, an injection into `0 .. n-1`).

`TimesTrue` is not inductive.  It says nothing of the clock, so a step may start
a record at a wrong time.  `IInv` adds, while the card is read,

* `Past`: all that was read is before `tick`;
* `ClockOK`: a channel's clock starts from the latest time stamp and is never
  ahead of the recorder; it is behind only if samples went missing silently;
* `OpenOK`: the open record ends where the clock stands, or before it;
* `NumberOK`, `EndOK`: the next record has the next number and begins after the
  end of the last one (for the refinement).

There is one lemma per action (`TimestampStep`, `SampleStep`, `LostStep`,
`OtherStep`, ...).  They rest on facts about the methods (`SampleFacts`,
`LostFacts`, ...) and on `RecordKept`: what is read later changes nothing about
a record that is already there.

The refinement follows from `IInv` by `FileStep` (each step leaves a file as it
is or appends a record that continues it) and `ArchiveAppend`.

On top of `IInv`, the same module proves `SamplesKept` (`NothingLost`), `LittleIsLost`
(`AbortLoss`), `FilesAligned` (`Aligned`) and `RowsAreTrue` (`RowsTrue`).

* `RowsTrue` needs that the clock of channel 0 starts from the latest time stamp
  (`ClockOK` of `IInv`), and `RowsPast`: what was measured lies in the past.
* `Aligned` allows a difference of one record after an abort, so it is inductive
  only with `Uniform`: while the card is read, all channels are in the same state.
  `PassOrder` says that the channels that one pass handled come before those it
  did not reach, `PassAligned` that such a pass writes one record at most to each.
* `NothingLost` and `AbortLoss` are proved together (`KeptInv`), with `OpenInOrder` (the
  open record comes after all that is in the file) and `Stamped` (a channel has a
  time as soon as there is a stamp).  `Moves` sorts the actions by what they do to a
  channel: nothing (`Stays`), take a sample (`Takes`) or close the record (`Cuts`);
  `OrderStep`, `SamplesStep` and `LossStep` then look at three cases instead of ten
  actions.  `ListBound` bounds what a record of n samples can lose.

`MakeseedFast_proofs` proves, for every number of channels, record capacity,
buffer length, disk, set of refusals and card: `TypeCorrect`, `YieldedGapless`
(`Gapless`), `TrueTimes` (`TimesTrue`), `NothingLost` (`Pipeline`), `LittleIsLost`
(`AbortLoss`), and the refinement `ArchiveKept` (`KeepsArchive`).  The properties
look at where a sample is; the invariant has to say why it goes to the right
place.  `IInv` is `TypeOK` and, for all channels together,

* `OneClock`: they have the same clock and equally full buffers, because
  every frame treats them alike;
* `QueueOK`: what is yielded are slices of the last channels, one each, in order, and
  nothing is collected meanwhile;
* `PhaseOK`: nothing is on its way when the channels are closed;
* `CountOK`: `sample_number` is behind exactly when a gap is unknown, and nothing was
  kept before it left 0 (the block sets the clocks only at sample 0);
* `HeardOK`: every tick since the clock was set is that of a sample that was read or of
  one that is missing, so that the `k`-th sample read is as far behind as samples are
  missing before it (`MissingAcrossGap` counts them over a gap);
* `FreshOK`, `Gapless`: the newest sample in a buffer is the one before the next;

and for each channel `ChannelOK`:

* `PlacesOK`: what was read, in order, is in records as far as the clock of the
  channel has counted, then in its slice, then in its buffer;
* `RecordsOK`: a record holds the samples of the moments that it claims;
* `NextOK`: the number and the time of the next record follow the last one;
* `ContentOK`: file and open record hold what was read, up to that count.

`StepKinds` sorts the actions into seven by what they do to the program; there is
one lemma for each conjunct (`ClockStep`, `CountStep`, `HeardStep`, ...), and for
`ChannelOK` one for each kind (`DataChannel`, `DropChannel`, `FillChannel`, `CloseChannelOK`,
...).  The hard one is `FillChannel`, the turn of the loop in `sample_buffer` that
moves a part of a slice into a record and writes the record if it is full.
`NothingLost` follows because file, slice and buffer are three parts of one
sequence (`InThreeParts`).  The proof needs that `FlattenSeq`, with which the file's
content is written, concatenates (`FlattenAppend`).  That is an induction; the
library's theorems for it take an operator, so `SetInduction` has a set of numbers
in its place, and rests on the well-foundedness of finite sets (`LeastNumber`).

`SampleBuffer_proofs` proves, for every set of objects and blocks (the objects
are finitely many) and every bound on lengths: `TypeCorrect`,
`NoLeak` (`Counted`), `InsideStorage` (`Inside`) and `SlicesOfWhole`
(`SliceOfWhole`).  The inductive invariant is the conjunction of these, with
`WindowOK` in the place of the last two.  `UsersGrow` and `UsersShrink` say what a step does
to the number of users of a block.

`KumSd_proofs` holds the proofs about the card reader.  Of `KumSdFile` it proves,
for every set of cards: `TypeCorrect`, `OnlyFrames` (`Faithful`), `AllFrames` (`Complete`), `PosInStep` (`InStep`), `OneHeader`
(`Coherent`), `OwnTimes` (`OwnBase`).  `Complete` is not inductive, because it
speaks only of an iteration that is over.  `IInv` adds `Seen` (of the frames before
`next`, all that are recorded were handed out, and only those), `Exhausted` (at
the end, all that are recorded are before `next`: `ReturnStep` concludes from
`InStep` and the order of the frames that a frame from `next` on ends behind the end
address) and `Current` (`each_frame` reads what was loaded last, `process` the first
recording, whose start time is valid).  `LatestGrows` and `LoadFacts` say what one
more pair of headers makes of the latest ones.  That a frame lies
behind all those before it (`Order`) is an induction over the card; the first
frame that does not (`LeastNumber`) leads to a contradiction.

Of `KumSdHeader` it proves `DescribedAlways` (`Described`) and `ReadsBackAlways`
(`ReadsBack`), for every size of the block and of the text fields, up to 9
channels, every set of values of a place, every header that a recorder can write,
every block (an encoding, padded, cut or damaged: nothing is asked of it but its
length) and everything the struct may hold at the start (`SizeAssumption`,
`PlacesAssumption`, `BlocksAssumption`).  Both invariants are made of
`Laid(b, h, n, pad, cut, m)`: the first `m` sections of the header `h` stand in the
block `b`, and section `k` ends at `cut[k]`.  `DescribesIs` shows that this is
`Describes` said section by section; it rests on `PartCovers`, the layout of each
section, and on `FlattenCuts`, where the members of a sequence of sequences are
found in their concatenation.

* For `Described`, `ReadInv` says that the sections behind the reader are laid out as
  the struct says and the reader stands one place behind the last (`Behind`), in
  the middle of the names one behind the last name (`AtName`), and that all texts
  fit.  `NumberTakes`, `SyncTakes`, ... say what each action reads, and `TakenBehind`
  that this keeps the invariant.
* For `ReadsBack`, `BackInv` speaks of any layout of the header that was written: as
  long as the reader goes on it is where the next section begins and has read what
  was written (`Follows`), and it gives up only if something does not fit.  There is
  a lemma for each section again (`NumberBack`, `SyncBack`, ...).  The reader cannot lose
  its place at a text, because that ends at its first zero (`TextFound`), and behind
  the zeros is a tag, which is none (`SkipFound`).
* `CalendarTimes`: for all values of the six bytes `FromBcd` gives what `CalendarTime`
  says, so that leap years and long months are right in the whole century.

`MakeZft_proofs` proves, for every set of cards and up to 8 channels:
`TypeCorrect`, `PlacesAreTimes` (`PlacesTrue`), `AllCopied` (`Copied`),
`TrueRows` (`RowsTrue`).  `IInv` adds where the copy
stands: `InPlace` (frames written = samples before `next` and turns done, less
those missing silently), `CopiedDone` (the turns done of a `LostFrames`), `Joined`
(`t` and `volt` are the latest before `next`), `Headed` and `Early`.  `PushStep` is the
step that appends a frame, `QuietStep` one that does not.

`ParseOptions_proofs` proves, for every list of options and every command line:
`TypeCorrect`, `AllWordsKept` (`WordsKept`), `LastDecides` (`LastOneDecides`) and
`EndsAtFirst` (`FirstExit`).  `WordsKept` says where the words
that were read are, but not why the next one is positional; `IInv` adds `Place`,
which says so: an option waits exactly if the word before left it waiting, and
`c` is the slot of the word that is read.  Words never collide because slots grow
with positional words (`SlotGrows`).

`LastOneDecides` and `FirstExit` speak of the end and of the whole command line.
`Meant` adds to `IInv` what they are in the middle of it.  `Read` are the
options before the place `<<i, j>>`; `Applied` are those, without the one that
waits for its argument (`Waits`).  `Effects` says that all options applied were
right and that every setting is that of the last of them (`CarriedOut`), and that a
program that was ended was ended by the first that is not (`EndsAt`), or for want
of a file.  `OptionWaits` says that the option kept in `o` is the one at `Waits`.
`ReadNext` is the centre: a turn of the loop adds exactly one option to `Read`, and
`OptionRead`, `WaitingApplied` and `WordPassed` are the three things that can
happen to it.  The constants must keep apart a null pointer from an argument
(`OptionsAssumption`).

`Seismiks_proofs` proves, for every number of objects and tables and every set of
files to begin with: `TypeCorrect`, `OpenedWhole` (`Opened`), `LocksReleased`
(`Released`), `StationsAreTrue` (`StationsTrue`), and the refinement `FileKept`
(`KeepsFile`).  The inductive invariant has, for each connection, which lock and
copy belong to its place (`pc`) and what the copy is: the file with the part of
the format that is done, or with rows added at the end.  The hard step is
`Commit`, which needs that the file is still the one the copy was made of; it is,
because nobody else gets past `reserved` meanwhile (at most one object is a
writer).  `FormatCommitted` and `RowCommitted` are the two steps of
`SeismiksFile`; every other action is a stutter.  `Stays` and `QuietStep` serve the
actions that leave the file alone.

`OutputFiles_proofs` proves, for every set of users, list of names and number of
runs: `TypeCorrect`, `UserOnly` (`Unprivileged`), `FilesKeptApart` (`OwnFile`),
`LogsAreTrue` (`LogTrue`).  None of the last three is inductive.  `IInv` adds
`Control` (which user and which file belong to `at`), `Owned` (the run that a file
names could write it), `Made` (the files before the present one of the plan are
of this run), `Listed` (and the log lists them), `Told` (what every log says, also
one that an older run left) and `Fresh` (before the frames, offsets are 0 and
the files of this run are empty).  `QuietStep` is for the actions that leave the
disk alone; `PlanFacts` says that each channel has its place in the plan.

Every safety property of a passing run is proved.  Out of the prover's reach, and
left to TLC: liveness (`EverySampleLands`, `Ends`).

## Not modelled

* sqlite3, lz4 and xxhash are vendored, about 169,000 of the 172,000 lines of C and
  Ruby in the repository.  What `Seismiks` needs of sqlite is its environment;
  lz4 and xxhash are called by nothing.  Of the 4,000 lines that are the
  project's own, nearly 2,000 are modelled.
* The bytes of a data record, of its blockettes and of a ZFT header, and their
  decimal fields: each is written by one function without state, and needs test
  vectors more than interleavings.
* The byte order of the numbers in a header; `Time#to_bcd` and `String#as_bcd`,
  which nothing calls.
* The wording of log and CSV, the progress bar, floating point arithmetic, the
  collector apart from finalizers, and what `fclose` may fail to write on a full
  disk (`zft_close` and mruby's `IO` ignore it).
* `import_kumsd` of Seismiks, which is a stub.
* `makezft` opens its `.zft` file with the program owner's rights; `OutputFiles`
  is about `makeseed`.

## Plan

In this order, most important first:

1. done: `SeedChannel`, `Makeseed`, `SeedArchive`, their runs and theorems.
2. done: `MakeseedFast` and its run.
3. done: `SampleBuffer`, its runs and theorems.
4. done: `KumSdFile`, its runs and theorems.
5. done: `MakeZft`, its runs and theorems.
6. done: `ParseOptions`, its run and theorems.
7. done: `Seismiks`, `SeismiksFile`, their runs and theorems.
8. done: `OutputFiles` (file names, privileges, `mkdir_p`, equal names), its run and
   theorems.
9. done: the theorems about the remaining invariants of `Makeseed`.
10. done: `KumSdHeader`, `BcdTime` and their run.
11. in part: the fields of a record.  `BTIME` is done; decimal fields and sample
    rates against reference definitions are left.
12. done: the theorems about `MakeseedFast`, `LastOneDecides` and `FirstExit`.
13. done: the theorems about `KumSdHeader` and `BcdTime`.
