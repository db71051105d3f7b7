----------------------------- MODULE Classifier ------------------------------
(***************************************************************************)
(* internal/registry/classify.go: what registration learns of a contract   *)
(* from its instance and code entries.  The bytes of the code come from    *)
(* the chain and may be cut or malformed from anywhere on.  An entry of    *)
(* the spec is shrunk to one byte that says what it declares, and a varint *)
(* to two bytes.                                                           *)
(***************************************************************************)
EXTENDS Integers, SequencesExt

CONSTANTS
    Continues,      \* the varint's continuation bit
    wasmMagic,
    wasmVersion,
    specName,       \* contractspecv0
    SectionCatalog, \* sections a wasm module may hold: [id, name, body]
    MaxSections,    \* bound: sections in a module
    Junk            \* bytes that may follow what is left of a module

maxVarintLen == 2

Byte == 0..(2 * Continues - 1)

\* What an entry of the spec declares; any other byte is one that does not decode.
EventV0 == 1
FunctionV0 == 2
OtherV0 == 3

-----------------------------------------------------------------------------
(* What a compiler writes.                                                 *)

PutUvarint(n) == IF n < Continues THEN <<n>> ELSE <<Continues + (n % Continues), n \div Continues>>

\* A custom section (id 0) begins with its name.
Content(s) == IF s.id = 0 THEN PutUvarint(Len(s.name)) \o s.name \o s.body ELSE s.body

SectionBytes(s) == <<s.id>> \o PutUvarint(Len(Content(s))) \o Content(s)

ASSUME ClassifierAssumption ==
    /\ Continues \in Nat \ {0} /\ MaxSections \in Nat
    /\ wasmMagic \in Seq(Byte) /\ wasmVersion \in Seq(Byte) /\ specName \in Seq(Byte)
    /\ Junk \subseteq Seq(Byte)
    /\ SectionCatalog \subseteq [id: Byte, name: Seq(Byte), body: Seq(Byte)]
    \* every length of a module can be written as a varint
    /\ \A s \in SectionCatalog : Len(Content(s)) < Continues * Continues

VARIABLES
    sections,   \* of the module: each with the number of bytes up to its end
    code,       \* the bytes of the module
    scan        \* contractSpecSection, on the code up to a cut and what follows it there

classifierVars == <<sections, code, scan>>

NotScanning == [pc |-> "idle", cut |-> 0, junk |-> <<>>, rest |-> <<>>, spec |-> <<>>]

ClassifierInit == sections = <<>> /\ code = wasmMagic \o wasmVersion /\ scan = NotScanning

\* The modules the property is checked on.
AddSection ==
    /\ scan.pc = "idle" /\ Len(sections) < MaxSections
    /\ \E s \in SectionCatalog :
          /\ sections' = Append(sections, [sec |-> s, end |-> Len(code) + Len(SectionBytes(s))])
          /\ code' = code \o SectionBytes(s)
    /\ UNCHANGED scan

-----------------------------------------------------------------------------
(* The walk over the section table.                                        *)

\* binary.Uvarint: n = 0 for a value cut short, n < 0 for one too wide.
Uvarint(buf) ==
    LET ends == {i \in DOMAIN buf : buf[i] < Continues}
    IN  CASE ends = {}                            -> [val |-> 0, n |-> 0]
          [] ends # {} /\ Min(ends) > maxVarintLen -> [val |-> 0, n |-> -1]
          [] OTHER -> [n |-> Min(ends),
                       val |-> IF Min(ends) = 1 THEN buf[1]
                               ELSE buf[1] - Continues + Continues * buf[2]]

\* No bytes: the outcomes of the walk that are not a payload.
NoSpec == <<-1>>
Panic == <<-2>>

\* Mutant: the length is compared with what is left before the varint is skipped.
Fits_BeforeSkip(v, buf) == v.n > 0 /\ v.val <= Len(buf)

\* A length that was read and that the rest of the buffer can hold.
Fits(v, buf) == v.n > 0 /\ v.val <= Len(buf) - v.n

\* buf[n : n+len]; out of range it panics.
Slice(buf, v) == IF v.n + v.val <= Len(buf) THEN SubSeq(buf, v.n + 1, v.n + v.val) ELSE Panic

After(buf, v) == SubSeq(buf, v.n + v.val + 1, Len(buf))

\* The code that arrives is whole or cut, and anything may follow.
StartScan ==
    /\ scan.pc = "idle"
    /\ \E cut \in 0..Len(code), junk \in Junk :
          LET wasm == SubSeq(code, 1, cut) \o junk
              header == Len(wasmMagic) + Len(wasmVersion)
          IN  scan' = IF Len(wasm) < header \/ SubSeq(wasm, 1, Len(wasmMagic)) # wasmMagic
                      THEN [pc |-> "done", cut |-> cut, junk |-> junk, rest |-> <<>>, spec |-> NoSpec]
                      ELSE [pc |-> "walk", cut |-> cut, junk |-> junk,
                            rest |-> SubSeq(wasm, header + 1, Len(wasm)), spec |-> <<>>]
    /\ UNCHANGED <<sections, code>>

\* What the walk makes of the section at the head of rest.
walkSection(rest) ==
    LET buf == Tail(rest)
        size == Uvarint(buf)
        section == Slice(buf, size)
        name == Uvarint(section)
        ends(spec) == [pc |-> "done", rest |-> rest, spec |-> spec]
        next == [pc |-> "walk", rest |-> After(buf, size), spec |-> <<>>]
    IN  IF rest = <<>> \/ ~Fits(size, buf) THEN ends(NoSpec)
        ELSE IF section = Panic THEN ends(Panic)
        ELSE IF Head(rest) # 0 THEN next
        ELSE IF ~Fits(name, section) THEN ends(NoSpec)
        ELSE IF Slice(section, name) = Panic THEN ends(Panic)
        ELSE IF Slice(section, name) = specName THEN ends(After(section, name))
        ELSE next

contractSpecSection ==
    /\ scan.pc = "walk"
    /\ LET step == walkSection(scan.rest)
       IN  scan' = [scan EXCEPT !.pc = step.pc, !.rest = step.rest, !.spec = step.spec]
    /\ UNCHANGED <<sections, code>>

ClassifierNext == AddSection \/ StartScan \/ contractSpecSection

ClassifierSpec == ClassifierInit /\ [][ClassifierNext]_classifierVars

-----------------------------------------------------------------------------
\* One entry that does not decode makes the whole stream opaque.
specNames(spec) ==
    LET of(kind) == Len(SelectSeq(spec, LAMBDA b : b = kind))
    IN  [ok |-> \A i \in DOMAIN spec : spec[i] \in {EventV0, FunctionV0, OtherV0},
         events |-> of(EventV0), functions |-> of(FunctionV0)]

Cls(type, method, names) == [type |-> type, method |-> method, names |-> names]
Failed == Cls("error", "", 0)
Opaque == Cls("wasm", "opaque", 0)

\* Declared events first, exported functions as the fallback.
Mined(names) ==
    CASE ~names.ok \/ names.events + names.functions = 0 -> Opaque
      [] names.ok /\ names.events > 0 -> Cls("wasm", "spec_events", names.events)
      [] OTHER                         -> Cls("wasm", "function_names", names.functions)

\* A code entry that cannot be read or understood is an opaque contract; spec is
\* what the walk over its code left.
classifyWasm(answer, spec) ==
    CASE answer = "rpc error" -> Failed
      [] answer \in {"not found", "malformed"} -> Opaque
      [] answer = "code" -> CASE spec = Panic  -> Failed
                              [] spec = NoSpec -> Opaque
                              [] OTHER         -> Mined(specNames(spec))

\* The recover frontier turns a panic of a getter into an error.
Classify(instance, answer, spec) ==
    CASE instance \in {"rpc error", "malformed", "panics"} -> Failed
      [] instance = "not found"  -> Cls("not found", "", 0)
      [] instance = "sac"        -> Cls("sac", "sac_builtin", 7)
      [] instance = "wasm"       -> classifyWasm(answer, spec)
      [] instance = "other"      -> Cls("external", "opaque", 0)

-----------------------------------------------------------------------------
SpecSections == {i \in DOMAIN sections : sections[i].sec.id = 0 /\ sections[i].sec.name = specName}

\* "An unreadable spec degrades to MethodOpaque rather than failing
\* registration": wherever the code is cut and whatever follows, its
\* classification is no error; it names the events of the module's first spec
\* section when all of that section is there, and is opaque when it is not and
\* nothing follows.
SpecHonest ==
    LET first == sections[Min(SpecSections)]
        whole == SpecSections # {} /\ scan.cut >= first.end
        cls == Classify("wasm", "code", scan.spec)
    IN  scan.pc = "done" =>
           /\ cls # Failed
           /\ whole => cls = Mined(specNames(first.sec.body))
           /\ ~whole /\ scan.junk = <<>> => cls = Opaque

=============================================================================
