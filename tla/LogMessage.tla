----------------------------- MODULE LogMessage -----------------------------
(***************************************************************************)
(* lesf::log::Message (src/src/log/message.cpp), the exceptions it may     *)
(* carry (src/inc/lesf/core/exception.h) and the formatters that show it   *)
(* (src/src/log/formatter.cpp): what a message becomes on its way to the   *)
(* log server and what is made of it there.                                *)
(*                                                                         *)
(* Text is abstracted to what is told apart, except where its characters   *)
(* are converted: times and stack traces travel as hexadecimal digits, and *)
(* traces are shown with every line indented.  A character is a byte, of   *)
(* two digits.  JSON is written and read by libconf, which is not in the   *)
(* repository: a tree of bound members is a record.                        *)
(***************************************************************************)
EXTENDS Integers, SequencesExt

CONSTANTS
    HexBase,  \* the number of hexadecimal digits, 16 in the code
    RepSize   \* sizeof(rep) of a point in time, in bytes

ASSUME LogMessageAssumption ==
    /\ HexBase \in Nat \ {0, 1}
    /\ RepSize \in Nat

Byte == 0 .. HexBase * HexBase - 1
Newline == 0
Space == 1

-----------------------------------------------------------------------------
(* boost::algorithm::hex and unhex.                                         *)

hex(raw) ==
    [i \in 1 .. 2 * Len(raw) |->
        IF i % 2 = 1 THEN raw[(i + 1) \div 2] \div HexBase ELSE raw[i \div 2] % HexBase]

unhex(digits) == [i \in 1 .. Len(digits) \div 2 |-> HexBase * digits[2 * i - 1] + digits[2 * i]]

\* unhex throws when a digit is missing.
IsHex(digits) == Len(digits) % 2 = 0

-----------------------------------------------------------------------------
(* core::Exception.                                                         *)

Unset == [set |-> FALSE]

\* An exception made from its description only.
Bare(what) == [what |-> what, build_info |-> Unset, debug_info |-> Unset]

\* LESF_CORE_THROW: where it was thrown and the stack, a sequence of frames;
\* the text of the expression stands in when the description cannot be built.
Thrown(what, describes, frames) ==
    [what |-> IF describes THEN what ELSE "<unable to construct description string>",
     build_info |-> [set |-> TRUE, at |-> "throw"],
     debug_info |-> [set |-> TRUE, trace |-> frames]]

\* The text of a frame is never empty, since its number comes first, and is one line.
StackFrame == Seq(Byte \ {Newline}) \ {<<>>}

\* operator<< of a stack trace ends every frame with a newline.
PrintStack(frames) == FlattenSeq([i \in DOMAIN frames |-> Append(frames[i], Newline)])

-----------------------------------------------------------------------------
(* log::Message.                                                            *)

Types == {"Unknown", "Crash", "Error", "Warning", "Info", "Trace"}

NewMessage(type, build, process, now, text) ==
    [type |-> type, build_info |-> build, process_info |-> process, time |-> now,
     message |-> text, exception_info |-> <<>>]

ExceptionInfo(exc) ==
    [what |-> exc.what,
     build_info |-> IF exc.build_info.set THEN exc.build_info.at ELSE "",
     trace |-> IF exc.debug_info.set THEN hex(PrintStack(exc.debug_info.trace)) ELSE <<>>]

NewMessageWithException(type, build, process, now, text, exc) ==
    [NewMessage(type, build, process, now, text) EXCEPT !.exception_info = <<ExceptionInfo(exc)>>]

\* TimePointElement: the bytes of a point in time.
SynthetizeTime(time) == hex(time)

ExtractsTime(node) == IsHex(node) /\ Len(unhex(node)) = RepSize

\* The members that are bound in M_jsonTemplate and in the templates it contains.
M_jsonTemplate(msg) ==
    [type |-> msg.type, build_info |-> msg.build_info, process_info |-> msg.process_info,
     time |-> SynthetizeTime(msg.time), message |-> msg.message]

ExceptionInfoWrapper(msg) ==
    IF msg.exception_info = <<>> THEN Unset
    ELSE [set |-> TRUE, data |-> msg.exception_info[1]]

\* The JSON text of a message, or that of the exception that kept it from being written.
serialize(msg, throws) ==
    IF throws THEN [json |-> FALSE, text |-> "$ exception caught"]
    ELSE [json |-> TRUE, node |-> M_jsonTemplate(msg), exception_info |-> ExceptionInfoWrapper(msg)]

\* A text that is no message becomes part of one that tells so.
SynthesisFailed(serialized, now) == NewMessage("Unknown", "", "", now, <<"raw data", serialized>>)

synthetize(serialized, now) ==
    IF ~serialized.json \/ ~ExtractsTime(serialized.node.time)
    THEN SynthesisFailed(serialized, now)
    ELSE [type |-> serialized.node.type, build_info |-> serialized.node.build_info,
          process_info |-> serialized.node.process_info, time |-> unhex(serialized.node.time),
          message |-> serialized.node.message,
          exception_info |-> IF serialized.exception_info.set
                             THEN <<serialized.exception_info.data>> ELSE <<>>]

-----------------------------------------------------------------------------
(* Formatters.                                                              *)

\* std::string("    "); its four spaces are one here.
Indent == <<Space>>

\* Mutation: all of the characters are shown, the newline at the end too.
IndentAll(trace) ==
    Indent \o Indent \o FlattenSeq([p \in 1 .. Len(trace) |->
        IF trace[p] = Newline THEN <<Newline>> \o Indent \o Indent ELSE <<trace[p]>>])

\* The loop that finds every newline behind the first character and before the
\* last and indents what follows it; the last character is not shown.
IndentTrace(trace) ==
    Indent \o Indent \o FlattenSeq([p \in 1 .. Len(trace) - 1 |->
        IF trace[p] = Newline /\ p # 1 THEN <<Newline>> \o Indent \o Indent ELSE <<trace[p]>>])

\* The part of formatters::plain_light that shows the exception of a message.
ShownTrace(info) == IF info.trace = <<>> THEN <<>> ELSE IndentTrace(unhex(info.trace))

\* formatters::plain_light; its layout is left out.
plain_light(msg) ==
    [label |-> IF msg.type \in Types THEN msg.type ELSE "???",
     message |-> msg.message,
     trace |-> IF msg.exception_info = <<>> THEN <<>> ELSE ShownTrace(msg.exception_info[1])]
=============================================================================
