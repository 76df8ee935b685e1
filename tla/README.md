# A TLA+ verification of GetData

GetData is a C library that reads and writes *dirfiles*: directories of binary
time streams (*RAW fields*) described by a text database of field definitions,
the *format file* and the *fragments* it includes.  A handle is used by one
thread at a time, so the hard parts are not locks.  They are the state that the
library caches between calls (descriptors, positions, temporary names, indices,
pointers), the calls that change several files and may fail or be cut off
between two of them, and the other processes that append to the files while
they are read.  The rest is arithmetic that a test samples and a model checker
goes through: rates that do not divide, ends of files, versions of the standard.
This project models that core, checks it with TLC and proves part of it with
TLAPS.

Paths such as `raw.c` are relative to `src/src/` of the repository.

## 1. The system

| component | state it keeps | operations | what is hard | what makes it correct |
|---|---|---|---|---|
| **RAW field I/O, unencoded** (`raw.c`, `encoding.c`, `fpos.c`, `_GD_DoRaw`, `_GD_DoRawOut`, `_GD_Flush`) | per field `file[0]`: descriptor, mode, position | `gd_getdata`, `gd_putdata`, `gd_seek`, `gd_tell`, `gd_sync`, `gd_raw_close`, `gd_flush` | `lseek` is skipped when the cached position equals the target; reopening for writing; short reads and writes; a producer appending meanwhile | the cached position is where the descriptor stands; a read returns what was last written there |
| **RAW field I/O, gzip** (`gzip.c`, out-of-place part of `encoding.c`, `_GD_WriteSeek`) | `file[0]` (old file) and `file[1]` (temporary file), a zlib position in each | the same, and `gd_rename` closing the field | the new file is put together from both; closing renames; the process dies in between | the old file is replaced as a whole, by what was written and the rest of the old |
| **Alteration of a fragment** (`flimits.c`, `endian.c`, `encoding.c`, `move.c`, `protect.c`) | what a fragment declares, the data files of all its fields, temporary files | `gd_alter_frameoffset`, `gd_alter_endianness`, `gd_alter_encoding`, `gd_alter_protection`, `gd_metaflush` | all files of one or all fragments change in a row, any step may fail, the format file follows later | declaration and data change together; no sample is lost; at most one fragment is ever unclean |
| **Fragment tree** (`include.c`, `fragment.c`, `globals.c`) | `D->fragment`: file, parent index, modified, protection, `ref_name`; `fragment_index` of each field; `D->reference_field` | `gd_include`, `gd_uninclude`, `gd_reference`, `gd_alter_affixes` | removal renumbers fragments; reference fields propagate up the tree and dangle | indices and names stand for the documented tree; protection is respected |
| **Metadata flush, open and close** (`flush.c`, `open.c`, `close.c`) | `modified` flags, the format files | `gd_open`, `gd_metaflush`, `gd_rewrite_fragment`, `gd_close`, `gd_discard` | one of several files fails; the process dies between two; what is written must be read the same | unmodified fragments are as on disk; reopening changes nothing |
| **Field registry** (`add.c`, `del.c`, `name.c`, `entry.c`, `field_list.c`, `nfields.c`, `constant.c`, `string.c`) | the sorted entries, metafields, aliases, resolved inputs, clients of a CONST, cached lists | `gd_add*`, `gd_madd*`, `gd_delete`, `gd_rename`, `gd_hide`, `gd_put_*`, `gd_entry`, lists of names and of values | pointers to deleted or renamed entries, lists that are out of date | no entry refers to one that is gone; every question is answered from the fields there are |
| **Field definitions** (`add.c`, `mod.c`, `flush.c`, `parse.c`, `entry.c`) | the entry of a field, its parameters and whether they were fetched, the versions found, `modified` | `gd_add_*`, `gd_madd_*`, `gd_alter_*`, `gd_malter_spec`, `gd_hide`, `gd_dirfile_standards`, `gd_metaflush` | numbers, scalars and "no change" in one argument; files converted with the definition; ten versions of a line | the entry is what the calls add up to, and the line written for it reads the same |
| **Format file parser** (`parse.c`) | a fragment being read | directives, field lines, the parser callback | scope and order of directives, quotations and escapes | reading what was written |
| **Sample-index encoding** (`sie.c`) | current record and position of a run-length file | seek, read, write, size | records split and joined in place | the run-length file stands for an array of samples |
| **Other encodings** (`ascii.c`, `bzip.c`, `lzma.c`, `slim.c`, `zzip.c`, `zzslim.c`) | a stream or a buffer and a position in it, mostly read-only | read, seek, size | end of stream, going back, which position is reported | as above |
| **Derived fields** (`getdata.c`, `putdata.c`, `common.c`, `fpos.c`) | MPLEX look-back cache, recursion count, `index_pos` | `gd_getdata`, `gd_putdata`, `gd_seek`, `gd_tell` through LINCOM, MPLEX, ... | mixed rates, look-back, cycles | sample *n* is the function of its inputs at *n* |
| **Limits and look-up** (`nframes.c`, `flimits.c`, `index.c`) | the locals of a search, the I/O pointer of the field searched | `gd_nframes`, `gd_bof`, `gd_eof`, `gd_framenum_subset` | boundaries; the field grows between two reads of a search | a search ends, with a frame at which the field passes the value |
| legacy and compatibility layers, language bindings, utilities | none of their own | wrappers | | |

**How they interact.** A public call finds an entry in the registry; its
`fragment_index` gives the fragment, whose encoding selects a row of the table
of functions `_gd_ef[]`; `_GD_DoRaw`, `_GD_DoRawOut` and the conversions call
open, seek, read, write, sync, close and unlink through it.  Derived fields
recurse into their inputs.  `gd_flush` and `gd_sync` reach the RAW fields the
same way.  Every call that changes metadata sets `modified` of the fragments
concerned, and the flush reads registry and fragments and writes text; opening
parses that text back.  The alterations of a
fragment use the RAW functions to copy every file of it and then change what it
declares; those of a RAW field do the same with its one file.  State is shared through
the `DIRFILE` structure and through the file system, where other processes see
it.

## 2. Modules

| module | stands for |
|---|---|
| `Field` | abstract: an array of samples with an I/O pointer, what `gd_getdata(3)`, `gd_putdata(3)` and `gd_seek(3)` promise of any RAW field |
| `RawField` | one unencoded field, down to `open`, `lseek`, `read`, `write`, `fsync`, `close`, and a producer |
| `RawField_proofs` | theorems about `RawField`: its cached position; its samples, and that it implements `Field` |
| `OopField` | one gzip field with its temporary file, zlib positions, failures and the death of the process |
| `OopField_proofs`, `OopField_refines` | theorems about `OopField`: what a rename replaces; that it implements `Field` for careful callers |
| `Alter` | abstract: declaration and samples of a fragment change together or not at all |
| `AlterFragment` | the three recoding calls, one step per field and phase |
| `AlterFragment_proofs`, `AlterFragment_refines` | theorems about `AlterFragment`: its invariants; that it implements `Alter` |
| `IncludeTree` | abstract: a tree of files, the file of each field, the reference field |
| `Fragments` | the array of fragments, the format files, and the calls that change them |
| `Fragments_proofs` | theorems about `Fragments`: its indices, what is on disk, what is protected |
| `RawFile` | what the codecs share: a call as a chain of steps on one record |
| `SieFile`, `TextFile`, `PackedFile` | the back ends of sie, of text, and of bzip2, lzma, slim, zzip and zzslim |
| `CodecField` | one RAW field stored by any of them, under the public calls |
| `Samples` | what is done with buffers: scaling, sums, windows, tables, conversions |
| `Formula` | abstract: what sample *n* of a field is, by its definition |
| `Derived` | reading, writing and seeking computed fields, recursion and caches included |
| `FrameSearch` | `gd_framenum_subset`, one step per read, with a producer |
| `FrameSearch_proofs` | theorems about `FrameSearch` |
| `Codes`, `FieldTable` | field codes; what a table of fields means by names alone |
| `Catalogue` | abstract: a function from names to fields and the operations on it |
| `Registry` | `D->entry` with every pointer and cache in it, and the calls that change it |
| `Tokens` | the words of a line: `_GD_Tokenise` and `_GD_StringEscapeise` |
| `EntryLine`, `EntryParser` | the entry of a field, the line written for it, the parsers of that line |
| `EntryChange` | `_GD_Change`: how an entry is altered |
| `Definitions` | abstract: what callers mean by a definition and by its alteration |
| `FieldSpec` | one field under all the calls that define, change, write and read it |
| `FieldSpec_proofs` | theorems about `FieldSpec` |
| `MCRawField`, `MCOopField`, `MCAlterFragment`, `MCFragments`, `MCCodecField`, `MCDerived`, `MCFrameSearch`, `MCRegistry`, `MCFieldSpec` | constants for TLC |

Operators named after something the code does wrong in a plausible way, and
commented with "Slip:", stand next to the definition they vary; no module uses
them.  They are what shows that a property can fail.

### RawField and Field

`file` is `E->e->u.raw.file[0]`: `idata`, `mode` and `pos` as in the code, and
beside them what the kernel knows: whether the descriptor is live and its offset
`off`, whole samples `s` and bytes `b` into the next.  `disk` is the data file;
`tail` counts the bytes after the last whole sample.  A public call is one
action, because nothing else uses the handle meanwhile; inside it, operators
named after the functions (`RawOpen`, `RawSeek`, `RawRead`, `RawWrite`,
`InitRawIO`, `FiniRawIO`, `GetFilePos`, `DoRaw`, `DoRawOut`) turn a record of the
state into the set of its outcomes, `Then` stopping at the first error.  A system
call in `Faults` may fail; a failed one leaves the state the code leaves.
`Produce` is the other program.  `ImplementsField` maps `disk.samples` and the
pointer that `gd_tell` would report to `Field`.

### OopField

`r` is `file[0]`, on the named file; `w` is `file[1]`, on the temporary file.
Each has the library's `pos` and zlib's `at`, which is what the code gets wrong
when it does: `_GD_GzipSeek` skips a seek to sample 0, a read-write handle is not
reopened, `gzclose` keeps the handle.  `Contents` is what closing the field would
make of both files, and the mapping to `Field`.  `Kill` is a crash followed by
opening the dirfile again.  `gd_seek` looks at `D->error`, which a temporary file that
cannot be made leaves alone: it goes on to ask for the position (`Unnoticed`).
Sample 0 is the first of the file (frame offset 0);
the copying loops copy in one step, because every buffer is written whole or the
loop fails.

### AlterFragment and Alter

`op` is the call in progress: its phase, the fragments still to do (`todo`), the
fields of the first of them still to convert (`left`) and those converted and to
be finished (`list`).  Both loops of the code go through `D->entry` in order,
which is `Place`: the first of a set of fields is the one whose place is lowest.
`h[f]` is the handle of a field, whose `temp` is the name of its temporary file:
`NULL`, that of a file, or what `mktemp` left when it failed.  `io` is where a file
stands: the library's `pos`, the samples that are behind the stream in truth, and
whether the newline of the last line is still to be read (`mid`), because `fscanf`
leaves it and `_GD_AsciiSeek` counts lines with `fgets`.  `Sought` is the seek of each
encoding, and both reads and conversions start where it leads.  `stale` is a stream
that was closed and kept: `_GD_AsciiOpen` closes it again (`ClosesTwice`), and
`_GD_FiniRawIO` does when a conversion to text or gzip could not write or close its file
(`MogrifyNoSpace`); `run` is "freed" from then on.  `MogrifyFile`
converts one field into `tmp` (the alternatives `MogrifySame`, `MogrifyProtected`,
`MogrifyMissing`, `MogrifyNoTemp`, `MogrifyNoSpace` are its other ends);
`MoveOver`, `MoveFails`, `UnlinkOld` and `Discard` finish one; `Declare` or `GiveUp`
ends the fragment.
Each is a step of its own, so that every state on the way is one a crash may
leave: properties that speak of a crash speak of `files` and `format` in every
state.  The abstract step is taken when the last conversion of a fragment
succeeds: from then on the new samples are in the temporary files, and only a
failing rename, after which the code gives the dirfile up, can keep them there.

### Fragments and IncludeTree

`frag` is `D->fragment` with indices from 1; `home` is `fragment_index`;
`reference` is `D->reference_field`, `Freed` when it points to memory that was
freed.  `disk` holds the lines of each file.  `ParseNext` reads the next line of the
innermost file that is open, with `IncludeFile` and `ParseFieldSpec`: the nested calls
of `_GD_ParseFragment` are a stack of frames, each with its place in its file and its
own `first_raw`, which every field line overwrites, while `ref` is the `ref_name` that a
sub-fragment overwrites; `ParseFragment` does so until all files are at their end,
and `Honour` follows. `FormatOf` writes the lines, `FlushMeta` gives the
outcomes of flushing a list of fragments: some prefix of the modified ones, since
the first error keeps the rest from being renamed.  `Uninclude` follows the
array: collect, flush or unlink, then for each collected index copy the last
element there (`RemoveOne`); `CollectNext` is the recursion of `_GD_CollectFragments`
with the fragments still to visit in a list; `Intact` tells whether freed names or indices out of
range remain, in which case the run is "broken" and the behaviour ends.  The
mapping to `IncludeTree` replaces indices by file names.

### CodecField, SieFile, TextFile, PackedFile

`file` is again `file[0]`, with its private data in `own`; the functions of a
codec are chosen by `EfOpen`, `EfRead` and so on, as `_gd_ef[]` does.  A back end
maps the record of a call to the set of its outcomes, and ends it early with
"error" or, where C gives what follows no meaning (a freed handle, a negative
count), "undefined".  `Samples` decodes the file, `Position` says where the field
really stands, and with these two the field has to implement the same `Field` as
an unencoded one, and never to be "undefined".  The cells of a sie file are its
records, so that splitting, joining and extending runs are visible;
`RunsInOrder` is what dirfile-encoding(5) asks of them.  Of the decompressing
libraries only the promises are modelled that the code relies on.

### Derived, Formula and Samples

`DoField` and `DoFieldOut` recurse over the definition as the code does, with the
error, the recursion count, the buffers read so far and the pointers of the RAW
fields in one record `st`; the buffers of mixed rate are walked with the
code's own index arithmetic, and what lies beyond a short read is `Junk`, which
spoils what it enters.  `Formula` has none of this: it defines the *set* of
values a field may have at *n* directly from its inputs at the same instant, a set
because an MPLEX field before its first value may have one or none.  The
properties compare the two: all reads in all states (`ReadsMean`), reads that go
on from here (`HereContinues`), all writes in all states, by reading back what was
written and what should be untouched (`PutsRead`), and beginning and end
(`LimitsAgree`).  Below is `Field`'s view of a RAW field, samples and a pointer.

### FrameSearch

One search, a step for every `gd_getdata` in `_GD_GetIndex` and `_GD_Extrapolate`,
so that the producer can write between any two.  "start" and "end" read the ends
of the range, "scan" is the loop that looks for the end of the field as well,
"bisect" the loop that only halves, "extrapolate" what happens beyond.  `sample`
is the result as a triple, the frame number being *low + num / den* samples.

### Registry, FieldTable and Catalogue

`D.heap` is memory: an entry is a record in a place, a pointer the number of the
place, and the lowest free place is allocated next, so that a stale pointer soon
means another field.  `D.entry` is the sorted array searched by bisection, `D.dot`
the list of names with a dot; `in`, `entry` and `repr` are the names and resolved
inputs, `client` the fields that use a CONST, `lists` what was handed out.
`Cat` forgets all pointers and caches and keeps names: it is the refinement
mapping to `Catalogue`, whose operations are stated by name.  Questions change
state, since they resolve inputs and fill caches, and are actions; their answers
are compared in every state with what the names say (`AnswersRight`).  The kits of
`MCRegistry` are families of calls that belong together; a behaviour uses one.

### FieldSpec and what it is made of

`D.E` is the `gd_entry_t` of one field, with lists of parameters that hold a number
(`lit`) and perhaps a scalar (`scalar`); `disk` is the one line of the format file
with the version it was written in.  Each call (`gd_add_*`, `gd_madd_*`,
`gd_alter_*`, ...) builds the argument of `_GD_Add` or `_GD_Change` as the wrapper
does and applies it; `due` is what the manual says the call means (`Definitions`),
worked out without the code's flags.  Writing gives words, reading turns words
into an entry under any version (`ReadAt`) or under that of the file (`Read`).
Numbers are words of their own kind, so that printing and scanning digits is left
out; free text is kept byte by byte because quotation and escapes are in
question.

## 3. Runs

| run | shows | bounds |
|---|---|---|
| `raw_implements_field` | `TypeOK`, `Coherent`, `ImplementsField`, `DiskSafe`: with every system call able to fail and a producer appending, reads return what was written, `GD_HERE` continues where the last transfer ended, an error changes no sample, no call but a write changes the disk and protected data stays | samples of one byte, two values, files of at most 3 samples, two samples per call, calls from the first sample on |
| `oop_implements_field` | `ImplementsField` for gzip under careful callers | two values, files of 6 samples, two per call |
| `oop_faults` | `AtomicReplace` under any callers, with temporary file, open, write and rename failing and the process dying anywhere | one value, files of 3 samples |
| `alter_implements` | `ImplementsAlter`, `CopiesDeleted`: changes of all three kinds in and out of text, protection, reads before and between, conversions failing | one fragment, unencoded at frame offset 0 or text at 1, offsets 0 and 1, two fields of two samples, of 1 and 2 per frame, files of at most 4 samples, reads of one from sample 0 or 1 |
| `alter_faults` | `TypeOK`, `OneUnclean`, `CrashReadable`, `DataSurvives` with temporary files, writes, renames and unlinks failing, and calls for all fragments | two fragments of one field, none or gzip, offsets 0 and 1, files of at most 4 samples |
| `tree_implements` | `TypeOK`, `CleanOnDisk`, `ReopensSame`, `ImplementsTree`, `ProtectedKept` with renames failing and the process ending between calls | four files, two RAW fields and one other, four calls from three dirfiles |
| `codecs` | `ImplementsField`, `RunsInOrder`: each of the eight codecs is the same array of samples | two values and padding, files of at most 4 samples, buffers of 2, two samples per call |
| `derived_reads` | `ReadsMean`, `HereContinues`, `PutsRead`, `LimitsAgree`, `LevelRestored` for every type of vector field, a file that cannot be opened, and a producer | four dirfiles (bit fields; products of unequal rate, offset and length; MPLEX and WINDOW; tables and the rest), files of 3 samples |
| `frame_search` | `TypeOK`, `FrameFound`, `Bracketed`, `SearchEnds` while the field grows | two samples per frame, four values, fields of 6 samples, all monotonic ones |
| `registry` | `PointersLive`, `TablesAgree`, `AnswersRight`, `RefusalsRight`, `ImplementsCatalogue` for any number of calls | eight kits of calls, room for 2 to 4 entries at a time |
| `fieldspec` | `TypeOK`, `Agree`, `Reopens`, `Conforms`, `Unsaved`, `VersionCached`, `CalculatedRight` for all types of field | four calls, a few arguments for each call |
| `fieldspec_version` | violation of `Conforms`: a set version is kept by a file that no longer conforms to it | three calls |

**Why the bounds are enough.** Positions matter to this code only relative to
each other (before, at, after the end of a file, of a transfer, of a buffer, of
the copied part) and the sizes above give each relation, padding included.  Two
values tell two samples from each other and from the padding; `oop_faults` needs
only to tell data from none, and a search needs values below, at, between and
above those of the field.  Two fields of different samples per frame make the
shifts of a conversion differ, and files of 4 samples hold the two of the second field
behind the frame that is padded when the offset goes down, from which a later change
takes it away again; with rates of 1 and 2 sample numbers divide and
do not; with two fragments there is one before and one after a failing one.  Four
files hold the cases of the array of fragments: one removed from the middle, one
with a sub-fragment, a chain; four calls are an inclusion, a change, a partial
flush and a crash.  In `registry` the bound is on entries that live at once, not on
calls: three are a field, what uses it and what uses that, or a field, its alias
and an alias of the alias, and a full heap makes every freed place be used again.
Four calls of `fieldspec` define a field, change it, fetch, set the version or write,
and read again.  `MaxLines` bounds the lines
that one call reads, 24 being more than four files can hold.  `MaxCalls` and `Calls` are
needed because the contents of the files
would otherwise make far more states.  Limits of the code are made small where
only reaching them matters: `MaxLevel` for `GD_MAX_RECURSE_LEVEL` (32), `BufferSize`
for `GD_BUFFER_SIZE`, `Buffer` for `GD_BZIP_BUFFER_SIZE`, `IntBits`, `Byte` and `Word`
for the widths of integers.

**Fairness.** A caller may stop calling, a producer may stop producing; nothing
obliges them, and most runs check safety only.  One thing does have to happen: a
search that has begun ends.  `FrameSearch!FairSpec` therefore assumes
`WF_vars(SearchStep)`, that is, that the loop of a call that has begun runs on, which
any thread that is scheduled does, and nothing about callers (`SearchReturn` and
`gd_framenum_subset` are not in it) or about the producer, so that a search ends
whether the field grows or not.  Loops that the code may not leave elsewhere are
states: `run = "looping"` in `OopField`.  Deadlock is not checked: callers may stop,
and a behaviour ends when the dirfile became invalid, the handle was freed or
memory is broken, states from which nothing is modelled.

**Careful callers.** Where the code fails for some sequence of calls, a passing
run can only be about the others.  Guards leave out exactly these, each named and
explained at its operator, where it cites the line of the code at fault:
`MayWrite`, `MayRead`, `MayTell` in `OopField`; `MayAlter`, `SeeksWell`, `ClosesTwice` in `AlterFragment`;
`MayInclude`, `MayUninclude`, `MayAdd`, `MayDelete`, `MayFlush` in `Fragments`;
`MayOpen`, `MayTell`, `MayGo`, `MayRead`, `MayWrite`, `MaySeek`, `MayAsk` in `CodecField`;
`MayRead`, `MayStream`, `MayPut` in `Derived`; `MaySearch` in `FrameSearch`; `MayName`,
`MayAdd`, `MayAddSpec`, `MayAddAlias`, `MayAlter`, `MayHide`, `MayPutString`,
`MayListValues`, `MayRename`, `MayDelete` and `MayDeleteAlias` in `Registry`; `MayAdd`,
`MayAlter` (`MayGrow`, `MayBeReal`, `MayBecome`), `MayCount`, `MayFlush` in `FieldSpec`.
In `AlterFragment` these are: no seek of a text file ahead of where a read left it, by
a read or by a conversion that drops samples; no read or conversion of a text file
that was closed before; no conversion of a gzip file that stands elsewhere than at its
start, and no padding of one; no change of encoding without recoding once a file name
is kept.  They are switched by the constant `Careful`, in `FieldSpec` by `Relaxed`, and are
always on in `Registry`.  Section 5 lists what they leave out: it is also the
documentation of how to call this version of the library.  `oop_faults` needs none,
`raw_implements_field` only the lower bound `Low` on sample numbers.  `Moves` is
`{TRUE}` in the runs of `AlterFragment`: without recoding, changing the declaration
changes what the data mean, by design.

## 4. Proofs

Eight modules hold theorems, about every instance of a model and not only the
small ones: invariants, three action properties, and that `RawField` and `OopField`
implement `Field` and `AlterFragment` implements `Alter`.  What a theorem assumes
beyond the `ASSUME` of the model is named in its statement, and is a fact about
callers or about which system calls fail; without a name it holds for all of them.

| module | theorems | assumes |
|---|---|---|
| `RawField_proofs` | `Invariance`, `TypeCorrect`, `DiskSafeHolds`; `CoherentAlways`, `Refinement` (of `Field`) | nothing; `Gentle` |
| `OopField_proofs` | `Invariance`, `AtomicReplaceHolds` | nothing |
| `OopField_refines` | `Refinement` (of `Field`) | `NoneFail`, `Existing`, `Careful` |
| `AlterFragment_proofs` | `Invariance`, `TypeCorrect`, `OneUncleanHolds`, `CopiesDeletedHolds`, `CrashReadableHolds`; `DataSurvivesHolds` | `Recodes`, `NoLeftovers`; and `Careful` |
| `AlterFragment_refines` | `Refinement` (of `Alter`) | `NoneFail`, `Careful`, `Recodes` |
| `Fragments_proofs` | `TypeCorrect`, `CleanOnDiskHolds`, `ProtectedKeptHolds` | `Careful` |
| `FrameSearch_proofs` | `SearchInvariant`, `TypeCorrect`, `AlwaysBracketed`; `FoundRight` | nothing; `Careful` |
| `FieldSpec_proofs` | `Invariance`, `TypeCorrect`, `VersionCachedHolds`, `CalculatedRightHolds` | nothing |

### RawField_proofs

For every set of values, sample size, frame offset, bound, access mode and set of
failing calls that satisfies `RawFieldAssumption`:

* `Invariance`: `Spec => []IInv`;
* `TypeCorrect`: `Spec => []TypeOK`;
* `CoherentAlways`: `Gentle => (Spec => []Coherent)`.

`Coherent` says that the position cached in `file.pos` is the offset of the
descriptor.  It is false in general.  `Gentle` names when it holds: calls do not
address samples before the start of the field (`Low >= FrameOffset`), and either
samples have one byte or neither a failing write nor the producer stops inside
one.  Even so it is not inductive: a read at the end of a file whose last sample
is incomplete moves the descriptor by bytes the library does not count, so `IInv`
adds that no tail ever exists, that positions are not negative, and that all
variables have their types.  The argument has one lemma for each function of the
code (`RawOpenGood`, `RawSeekGood`, `RawReadGood`, `RawWriteGood`, `RawCloseGood`,
`FiniGood`, `InitGood`, `FilePosGood`, `DoRawGood`, `DoRawOutGood`, `SeekToGood`,
`OriginGood`): given a state that is `Good`, all its outcomes are.  The step for
each public call composes them in the order in which the call does.

`DiskSafe` says which steps may change the data file, and how.  It holds whatever
fails and wherever transfers stop, so that its invariant is the one above without
`Gentle`: the lemmas `...Keeps` say of each function that it leaves samples and tail
alone, and only `RawWrite` does not.

`ImplementsField` needs the cached position, hence `Gentle`, and one more fact that
is not in `Coherent`: `Steady`.  A descriptor that lives is one the library knows of,
and a file that could not be opened but has its mode recorded, so that the next call
takes it for open, still has position 0; otherwise `gd_tell`, which reports the
position, and the mapped pointer, which for a closed file is the beginning, would
drift apart after a failed open.  `ReadGets` and the lemma on writes are the heart:
from a position that can be trusted a read returns the slice of the abstract array
there, and a write replaces it.  The last step of `Refinement` maps each public call to the step of
`Field` of its name, or to a stutter when it fails.

### OopField_proofs

`AtomicReplace` says: the named file changes only to what closing the field would
make of the two files (`Contents`), padded by no more than a seek asked for.  The
proof assumes nothing of callers, and lets everything fail.  `Contents` speaks of
what is between two calls, the rename happens in the middle of one, and before it
streams move and samples are copied: so `Held` says of any record on the way through
a call what closing it there would give, and each function is shown to leave
`Held` alone up to padding until `_GD_FiniRawIO` renames.  `Tied` is what makes that
true: an open old file is not read beyond its end and a handle for writing has a
temporary file; one that has lost its old file has written up to its position, or
the position is where it will pad to.  It is only asked of handles whose next call is
defined (`Defined`): the handle of a failed `gzclose` is not.

### OopField_refines

For any samples, bounds and sequences of calls, a gzip field implements `Field`
when three things hold, which are the instance of the run `oop_implements_field`:

* `NoneFail`: nothing fails and no process dies.  A temporary file that cannot be
  made and a `gzwrite` that fails are answered with no samples and no error, which
  `Field` knows no step for, and a failed rename loses all that was written since;
* `Existing`: the data file is there.  A write to a new one leaves `file[0]` closed,
  and with it the only position that is kept: the pointer does not move;
* `Careful`: callers write forward once and then close the field or go back, and
  read no field that is being written (`MayRead`, `MayWrite`, `MayTell`).

With any one of these calls in `Faults`, with a new file or with careless callers TLC
finds the refinement violated within four calls.  With them, the state between two calls is
`Calm`: the field is `Quiet`, the temporary file is gone and zlib stands where the recorded
position says, as far as the file goes (`Follows`); or it is `Busy`, and what has been
written ends at the position of the old file, which was read just as far.  In a `Busy`
field `Contents` is the temporary file and the rest of the old one.  The heart is
`WriteOutGives` with `OverlayIs`: samples from the start of the old file, what is
written, and the rest behind as many samples are the abstract array with the write
laid over it; on the way, `WriteSeekGives` shows that after a restart (`Fresh`) the
copy and a seek that does nothing bring both files to the place to write, and
`FiniGives` that closing loses nothing.  A read is `DoRawGives` with `SliceIs`.

### AlterFragment_proofs and AlterFragment_refines

For any number of fields and fragments, any samples, rates and encodings:

* `Recodes`: callers ask for the data to be recoded.  A caller who does not changes
  what the data mean, by design.
* `NoLeftovers`: either every temporary file can be deleted, or no text fragment's
  byte sex is altered.  Without it the invariant is false, for a reason found by
  trying to prove it (section 5, the first item of recoding).

`OneUnclean`, `CrashReadable` and the rest speak of single states of a call that goes
through two loops over the fields of one fragment after another, with errors that
turn the second loop into one that deletes.  `IInv` says where in the loops each
field is, and what its files then are: `CallOK` (the fields to convert and those to
finish are of this fragment, are disjoint, and the error tells what the second loop
does), `Copies` (who has a temporary file), `Copied` (the temporary file of a field to
be finished is right for the fragment's new declaration, or there was nothing to
convert), `InPlace` (between rename and unlink both files are right), `Settled` and
`HereSettled` (which declaration, old or new, describes the file of each field),
`Streams` (a stream is behind no more samples than a text file has, a closed one
stands at the start, and for careful callers every one stands where the library thinks), `Names` (the file name that is cached), `Flushed` (an unmodified fragment is as on
disk) and `Willing` (what careful callers saw to still holds of what is not converted
yet).  `Result`, part of two of them, carries the samples themselves for
`DataSurvives`.  One lemma per action and conjunct that it can disturb.

`Refinement` maps the decision to the last successful conversion of a fragment: what
the new samples are is then in temporary files, and the mapping reads them there
until they are in place.  `NoneFail` (no rename or unlink fails; everything else may)
is what the abstract specification needs, since a fragment half of which was renamed
is neither as before nor as asked.  `Clean` is the strengthening it takes: the only
error left in the second loop is then the change of byte sex of text.

### Fragments_proofs

For any number of files and fields, any contents of the format files, nested to any
depth, any calls that careful callers make, and any of the renames failing:

* `TypeCorrect`: `Spec => []TypeOK`, that is, the parent of every fragment and the
  fragment of every field are indices of the array, and nothing freed is used;
* `CleanOnDiskHolds`: `Spec => []CleanOnDisk`;
* `ProtectedKeptHolds`: `Spec => ProtectedKept`.

The invariant is `IInv`.  Its parts are `Clean`, which is `CleanOnDisk`; that no file is
included twice; and `Shape`, which adds to the types what makes the array a tree:
every set of fragments without the root has one that is included from outside the
set.  Without this a fragment could be below itself, what `gd_uninclude` collects would
not be each fragment below once, and removing it could renumber what it has already
removed; `TypeOK` alone is not inductive, for this reason and for one more that the
proof found, that deleting a field may leave its name as the reference field of a
fragment above (a guard of careful callers in `MayDelete`).

Three loops carry the argument.  `ReadNext` says that after every line `Halfway` holds:
the fields and fragments read so far are those told by the lines before the one at
which each open file is, and all lines of the files that were closed.  `GatherNext` says
that what `gd_uninclude` collects is below the fragment, each once (`Gathering`), and
`CollectIs` that it is all of it, since there is not more than the array holds.
`RemovedLoop` says where everything is after the first *k* have been removed (`Emptied`,
`Rehomed`); `From` is then the place from which each fragment that stays has come, and
`RemovedKept` that parents, fields and includes agree with it.  The flush is no loop in
the model: it writes the modified fragments before the first that fails.

The loops are recursive functions in the model.  That a definition by recursion has a
solution, and what a loop preserves, is shown by induction, and `Induction` itself is a
lemma: were there a number outside a set that contains 0 and all successors, the
numbers up to it that are outside would be a finite set with an injection into a
smaller one.  `Pigeonhole` is the same fact about lists without repetition.

### FieldSpec_proofs

For any arguments of the calls, any CONST fields with any numbers, any look-up
tables and samples and any number of calls, within the precautions that are guards
of the model (section 3) and the shapes of arguments that `FieldSpecAssumption`
states.  `IInv` is that the dirfile is `Good`: the entry is well formed (`IsEntry`: every
list has its length, LINCOM and POLYNOM no more parameters than that), its numbers
go with its marks (`Right`, which is `CalculatedRight`), and the versions that are
remembered are those that would be found (`Cached`).  That it is kept by adding,
fetching, hiding, setting the version and opening is one lemma each.  Opening has one
more for every parser (`RawMade`, ..., `MplexMade`): an entry read from *any* words is
`Made`, that is, not marked calculated with a scalar in it, and marked complex if a
number is.  Altering is the hard part: `_GD_Change` calls `_GD_AlterScalar` for one
parameter after the other, copies numbers between the real and the complex lists and
sets the mark in between, so that `Right` does not hold half-way.  For types without
complex numbers there is a stronger fact that every step keeps (`Sound`); for LINCOM,
POLYNOM and RECIP the proof follows each parameter to the end of the call
(`AlterTheseIs`, `PolynomRight`, `LincomRight`, `RecipRight`), and needs `MayBeReal` and
`MayGrow`, the guards for what section 5 says of such alterations.

### FrameSearch_proofs

For fields of any length and any values that are natural numbers, any range, any
number of samples per frame and any growth, under `SearchAssumption`:

* `SearchInvariant`: `Spec => []Search`;
* `TypeCorrect`: `Spec => []TypeOK`;
* `AlwaysBracketed`: `Spec => []Bracketed`;
* `FoundRight`: `ASSUME Careful PROVE Spec => []FrameFound`.

`Bracketed` is not inductive: what the first loop leaves to the second depends on
what the first has found out.  `Search` therefore has one conjunct for each thing
the code relies on: `WithinRange` (the range only gets narrower), `Remembered` (a
local that was read is the sample it was read from, however long ago, since fields
only grow), `Scanning` (while the end of the field is sought, the value does not lie
before `low` in the direction found, or every sample so far is the same),
`Bracketed`, and `Closing` (an end of the bracket that was moved is not the value, so
that no division by zero follows).  That a field is monotonic is part of `TypeOK`, and
lemmas carry it from two samples to those between.  For `FoundRight` the invariant is
`CarefulSearch`, which adds that a search that has to find the end of the field has
the value inside it (`Covered`), and that extrapolation goes on from the first or the
last two samples of the range, beyond which the value lies (`Beyond`): without
`Careful` the first loop can also give up on a field whose samples all lie on one
side of the value, and extrapolate from wherever it stands.  There is one lemma per
action and invariant (`SearchGrow`, `SearchReadEnd`, ..., `CarefulScanProbe`, ...).  TLC
checked every one of these parts as an invariant first.

### What is not proved

`SearchEnds` is liveness, which TLAPS cannot prove, and so is anything with
`ENABLED`.  Of `FieldSpec`, `Agree`, `Reopens`, `Conforms` and `Unsaved` are
model-checked only: after opening they depend on what `Tokenise` makes of what
`StringEscapeise` and `PadField` wrote, byte by byte, which would be a proof of its own
about each of them.  Of `Fragments`, `ReopensSame` and `ImplementsTree` are not proved.
`ReopensSame` compares the order in which reference fields are found with that in
which they were written; and `ImplementsTree`, which says that a dirfile with RAW fields
has a reference field, does not hold of every `InitDisks`: with a REFERENCE that
names no field, in a fragment that is not the last one included, TLC finds the
first RAW field added there without becoming the reference field (section 5).  The
files of the run have no such line.  `Formula` and `Derived` recurse over definitions, `FieldTable` (under
`Registry`) follows aliases and `PackedFile` and `SieFile` (under `CodecField`) loop over
buffers and records with `RECURSIVE` operators, about which TLAPS cannot reason; they
would have to become recursive functions first, as the loops of `Fragments` did, and
for operators that recurse over definitions no such bound is at hand.  Their
properties are model-checked only.

What the runs say nothing about, because the guards of careful callers leave it out, is
listed in section 5 and, where it is a hazard of its own, in PROJECT.json with a note
instead of properties: the sample an MPLEX field remembers after its inputs change,
circular definitions and the limit of the recursion, deletions through an alias or
forced, the error of an earlier call, the strings that the list of `gd_strings` points
to, a text file opened again, the full disk under a gzip file.

## 5. Where the code differs from its documentation

One run shows a difference: `fieldspec_version`.  The manual says that
metadata written to disk "will conform to the current Standards Version"
(`man/gd_dirfile_standards.3:38`); `flush.c:654` writes whatever version was set,
even when that version has no line for a field added since.  The others were met
while modelling; all are left in the models, or in the guards of careful callers,
as the code has them:

* RAW, unencoded: a read that starts before the field and ends at its start leaves
  a position that skips the next `lseek` (`getdata.c:281`), and `gd_tell` after it
  is wrong; a producer or a full disk that leaves part of a sample puts the
  position off for good; a failed open is remembered as open (`raw.c:41`); a seek
  for writing creates files in a read-only dirfile.
* gzip: a read between two writes loses the samples it read over
  (`encoding.c:511`); on a full disk closing never returns (`encoding.c:385`); a
  stale `errno` repeats the loop that makes a temporary file (`encoding.c:975`); seeking to sample
  0 does nothing; writing past the end appends in the wrong place; a failed put
  returns no error; a retry after a failed close shortens the file; the handle of
  a failed `gzclose` is used again; `gd_rename` makes the dirfile invalid though
  nothing failed; padding copies old samples.
* recoding: a temporary file that could not be deleted after a failed conversion
  keeps its name in `file[1]` (`encoding.c:423`), and a later change of the byte sex of
  text, which converts nothing, renames it over the data; samples read from a gzip field
  before the conversion are missing after it, and of a text field that was read one
  sample too few is dropped when the frame offset goes up (`move.c:170`); a text or gzip
  file that could not be written or closed is closed twice (`ascii.c:349`); a pending gzip write makes it fail (`encoding.c:514`); a
  leftover file under the target name replaces data; changing the byte
  sex of text makes the dirfile invalid; after a change of encoding without
  recoding the old file name stays cached; when a converted file cannot be moved it
  is deleted; `gd_alter_protection` marks nothing as modified, so a new level is
  never written (`protect.c:86`).
* fragments: `gd_uninclude` of a fragment with sub-fragments loses another fragment
  (`include.c:557`); rewriting an unmodified fragment changes the reference field
  (`parse.c:2375`); deleting the last RAW field, or removing the fragment that holds the
  reference field, leaves `D->reference_field` dangling (`del.c:407`,
  `include.c:533`); sub-fragments of a fragment that `gd_uninclude` relocates keep
  the old parent index; a deleted reference field stays in the files of the
  fragments above, which then cannot be opened; a REFERENCE directive is forgotten
  when an INCLUDE follows; a failing `gd_include` leaves the fragment included and
  its parent unmarked; `gd_include` counts nesting from zero, so that a tree deeper
  than `gd_open` reads can be built; a new RAW field writes a reference into
  protected parents; the first RAW field added to a fragment whose REFERENCE names no
  field leaves the dirfile without a reference field (`add.c:263`); the "first" RAW field of a fragment is its last line.
* sie: appending to a file that was not just written, and writing to an empty one,
  replaces the last record (`sie.c:155`); a seek past the end leads to an error or to
  a negative length (`sie.c:248`); `gd_eof` is the number of the last sample, not one
  more (`sie.c:499`); byte-swapped files gain samples at their end; a missing file
  read twice uses freed memory (`sie.c:76`).
* text: a seek forward after a read lands one line early (`ascii.c:69`); a field
  closed and opened again closes its stream twice (`ascii.c:35`); `gd_eof` does not
  count lines not yet synced (`ascii.c:383`).
* read-only codecs: lzma compares samples with bytes (`lzma.c:196`) and miscounts in
  the read that meets the end (`lzma.c:273`); bzip2 does not rewind when it goes back
  past its buffer (`bzip.c:122`) and with slim never sets `pos`; zzip stores bytes there.
* derived fields: a PHASE whose shifted sample is -1 is read from here, and
  `gd_tell` adds the shift; reads of an imaginary part and early returns leave the
  recursion count raised; `gd_flush` of a LINCOM with one input or of unresolved inputs
  crashes (`flush.c:64`); MPLEX reports an internal error at sample 0
  (`getdata.c:1725`) and keeps its cached sample when the inputs are written
  (`getdata.c:1708`); a LINCOM whose first input is faster may return more samples
  than asked for (`getdata.c:1035`); a second input without samples gives garbage; SBIT
  of more than 32 bits shifts an `int` too far (`getdata.c:1368`); `GetFilePos` compares
  an input with itself (`fpos.c:75`); reading INDEX does not move its position; a
  shift that takes the beginning before frame 0 keeps the samples (`flimits.c:448`).
* look-up: extrapolation takes a sample for a sample number (`index.c:150`) and
  starts one sample off (`index.c:141`); a range whose end lies beyond the field may
  be searched for ever when the value is one of its samples.
* registry: `gd_madd` never sets the parent, so that deleting or renaming the
  metafield crashes (`add.c:222`); a deleted client stays in the list of its CONST
  (`constant.c:223`); renaming a CONST crashes beside a literal (`name.c:216`),
  renaming with update overruns a list when an input already has the new name
  (`name.c:301`); `gd_add_spec`, `gd_madd_spec`, `gd_hide` and `gd_unhide` leave
  cached lists as they were; after `gd_put_string` the list of `gd_strings` points
  to freed strings (`putdata.c:680`), and an alias in it ends it early
  (`field_list.c:415`); hiding a field that is not there crashes (`entry.c:669`);
  deleting through an alias frees the field and removes the alias's slot; deletion
  looks at one of two inputs and misses other spellings of it; a deleted name with a
  dot stays in the dot list; a renamed field leaves its metafields behind; the error
  of an earlier call makes `gd_alter_*` and the questions about aliases fail; a
  dangling alias is not seen as a duplicate; an alias added to a metafield is listed
  at top level.
* definitions: `gd_add_polynom` takes no order above `GD_MAX_LINCOM`; `gd_add`
  forgets the last scalar of a POLYNOM (`add.c:471`); altering a POLYNOM or LINCOM with
  some real lists loses imaginary parts (`mod.c:655`) or the change (`mod.c:441`);
  `gd_alter_spec` without recoding ignores coefficients (`mod.c:1697`), and
  `gd_malter_spec` crashes on a bad line (`mod.c:1757`); a CARRAY of length 0 is
  written as a line that cannot be read, and an alteration that changes nothing
  frees its data; a CONST changed to a float is garbled; a parameter taken out before
  it was fetched is read as an integer (`mod.c:67`); a POLYNOM that shrank keeps the
  names of its old scalars, and growing again with scalars kept revives names that
  are never fetched (`mod.c:639`); `gd_add_mplex` and `gd_add` take a negative count value
  (`add.c:376`) or one of more than 16 bits, of which the parser keeps 16 (`parse.c:771`),
  so that it comes back as another one or is refused, and the dirfile cannot be
  opened again; metafields are not written below Standards Version 6 (`flush.c:758`); a
  CARRAY with a wrong element is used after it was freed (`parse.c:1314`); `gd_alter_spec` of a STRING, CONST or CARRAY ignores the values of the
  line and succeeds; in text, a quotation mark gains a
  backslash, bytes 10 to 15 are written with a capital letter, which is read as 0 to 5
  (`parse.c:1734`, where `man/dirfile-format.5:130` says that the digits are the number of the
  byte), bytes 16 to 31 lose their first digit as well (`flush.c:256`), and bytes 10, 16 and
  26, read as 0, are errors.  `Survives` has the bytes that come back; the texts of
  `fieldspec` hold some that are escaped: tabs, spaces and backslashes.

## 6. Not modelled, and why

Memory allocation failures; big-endian hosts; times, permissions and `errno`
(except where a loop tests it); the sizes of copy buffers; the texts of errors;
creating and truncating dirfiles; prefixes and suffixes (`gd_alter_affixes`); the
parser callback, and /ALIAS and /META lines in `FieldSpec`, whose metafields come
from calls; regular expressions over names; complex samples, rounding and the full
width of integers in `Derived`; reading CONST and CARRAY fields as data; the
insides of the decompressing libraries and their errors; the two-step opening of
zzslim; data files that cannot be renamed in `Registry`.  `gd_move` is in `Fragments` for
the metadata only.

The legacy and compatibility layers, the C++, Fortran, IDL, Python and Perl
bindings and the utilities are wrappers: they translate arguments and results of
the calls modelled here and keep no state of their own that these calls read.

## 7. Plan

1. *Done*: `RawField` with `Field`, `OopField`, `AlterFragment` with `Alter`,
   `Fragments` with `IncludeTree`; `CodecField` as a third implementation of `Field`;
   `Derived` against `Formula`; `FrameSearch` with its theorems; `Registry` with
   `Catalogue`; `FieldSpec` with `Definitions`.
2. *Proofs, done*: the cached position, `DiskSafe` and `ImplementsField` of `RawField`;
   `AtomicReplace` and `ImplementsField` of `OopField`; all invariants of
   `AlterFragment`, and `ImplementsAlter`;
   `FrameSearch`; types, versions and numbers of `FieldSpec`; `TypeOK`, `CleanOnDisk`
   and `ProtectedKept` of `Fragments`.
   *Next*: `Agree` of `FieldSpec` as long as format files read back as they were meant;
   `ReopensSame` of `Fragments`; `PointersLive` of `Registry`, for which the `RECURSIVE`
   operators of `FieldTable` have to become recursive functions first.
3. *Models next*: affixes, composed with `Registry` and `Fragments`; `gd_move` of the
   data file with its fragment's declaration; the callback of the parser.
