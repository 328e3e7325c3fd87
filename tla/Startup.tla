------------------------------- MODULE Startup -------------------------------
(***************************************************************************)
(* From the command line to the first listener: config.Parse, main, and    *)
(* the constructors that run calls with the configuration.  Each of        *)
(* NewCh341, NewDriver and encodeTransaction checks its arguments again,   *)
(* in its own terms.                                                       *)
(*                                                                         *)
(* A numeric text is given by the number it spells in the base the code    *)
(* reads it in, NotANumber where it spells none; words are given in lower  *)
(* case, which is how the code compares them.                              *)
(***************************************************************************)
EXTENDS Integers, SequencesExt

CONSTANTS
    CommandLines    \* [flags, positional, version, httpAddr, usbIDs, i2cAddress,
                    \* speed, logLevel, logFormat]; usbIDs the parts between
                    \* commas, each the sequence of its fields between colons

ASSUME CommandLinesAssumption ==
    \A a \in CommandLines : a.usbIDs \in Seq(Seq(Int)) /\ a.usbIDs # <<>>

VARIABLES
    pc,             \* "parse", a constructor, "serving" or "exited"
    args,           \* the command line
    cfg,            \* the Config
    code            \* the exit code

vars == <<pc, args, cfg, code>>

NotANumber == -1
defaultRecentEntries == 20

NoConfig == [usbIDs |-> <<>>, i2cAddress |-> 0, speed |-> 0, recentCapacity |-> 0]

-----------------------------------------------------------------------------
(* config.go *)

(* strconv.ParseUint, which fails on what is not a number and on overflow. *)
ParseUint(text, bits) == IF text \in 0 .. 2^bits - 1 THEN text ELSE NotANumber

validPart(part) ==
    /\ Len(part) = 2
    /\ \A k \in 1..2 : ParseUint(part[k], 16) # NotANumber

USBID(part) == [vendor |-> ParseUint(part[1], 16), product |-> ParseUint(part[2], 16)]

appendAlways(ids, part) == Append(ids, USBID(part))

(* One round of the loop: an identity that was seen is skipped. *)
appendUnseen(ids, part) ==
    IF \E k \in DOMAIN ids : ids[k] = USBID(part) THEN ids
                                                 ELSE Append(ids, USBID(part))

(* Split yields at least one part, so the final length check never fails.   *)
parseUSBIDs(parts) ==
    LET ids[n \in 0..Len(parts)] ==
            IF n = 0 THEN <<>> ELSE appendUnseen(ids[n - 1], parts[n])
    IN  IF \A k \in DOMAIN parts : validPart(parts[k]) THEN ids[Len(parts)] ELSE <<>>

anySpeed(speed) == speed > 0

validSpeed(speed) == speed \in {20, 100, 400, 750}

(* parseInteger of the address, and the conversion to uint8. *)
i2cAddressBits == 7
uint8(number) == number % 256

Levels == {"debug", "info", "warn", "error"}
Formats == {"json", "text"}

(* The checks of Parse in their order do the same as all of them together:  *)
(* each returns an error, and main exits with 2.                            *)
Accepted(a) ==
    /\ a.positional = 0
    /\ a.httpAddr = "host:port"
    /\ parseUSBIDs(a.usbIDs) # <<>>
    /\ ParseUint(a.i2cAddress, i2cAddressBits) # NotANumber
    /\ validSpeed(a.speed)
    /\ a.logLevel \in Levels
    /\ a.logFormat \in Formats

Config(a) ==
    [usbIDs |-> parseUSBIDs(a.usbIDs),
     i2cAddress |-> uint8(ParseUint(a.i2cAddress, i2cAddressBits)),
     speed |-> a.speed, recentCapacity |-> defaultRecentEntries]

Init ==
    /\ pc = "parse"
    /\ args \in CommandLines
    /\ cfg = NoConfig
    /\ code = 0

Exit(status) == pc' = "exited" /\ code' = status /\ UNCHANGED <<args, cfg>>

(* flag.ErrHelp: Parse printed the usage.  --version is looked at after the *)
(* flags were parsed and before their values are.  flags is "unknown" also  *)
(* for a speed that is no integer.                                          *)
PrintAndExit ==
    /\ pc = "parse"
    /\ \/ args.flags = "help"
       \/ args.flags = "ok" /\ args.positional = 0 /\ args.version
    /\ Exit(0)

RejectArguments ==
    /\ pc = "parse"
    /\ \/ args.flags = "unknown"
       \/ args.flags = "ok" /\ args.positional # 0
       \/ args.flags = "ok" /\ ~args.version /\ ~Accepted(args)
    /\ Exit(2)

Parse ==
    /\ pc = "parse"
    /\ args.flags = "ok"
    /\ ~args.version
    /\ Accepted(args)
    /\ cfg' = Config(args)
    /\ pc' = "NewCh341"
    /\ UNCHANGED <<args, code>>

-----------------------------------------------------------------------------
(* run; an error of a constructor makes main exit with 1. *)

(* I2CSpeed.command; 0 stands for its error. *)
command(speed) ==
    IF speed = 20 THEN \h60 ELSE IF speed = 100 THEN \h61
    ELSE IF speed = 400 THEN \h62 ELSE IF speed = 750 THEN \h63 ELSE 0

Constructor(name, valid, then) ==
    /\ pc = name
    /\ IF valid THEN pc' = then /\ UNCHANGED <<args, cfg, code>>
                ELSE Exit(1)

NewCh341 ==
    Constructor("NewCh341", cfg.usbIDs # <<>> /\ command(cfg.speed) # 0, "NewDriver")

NewDriver == Constructor("NewDriver", cfg.i2cAddress <= \h7f, "NewHandler")

(* NewService and NewHandler want arguments that are not nil and templates  *)
(* that parse: run passes them what the constructors before made, and the   *)
(* templates are embedded, so their error returns are not reached.  A ring  *)
(* without a slot would only fail at the first request.                     *)
NewHandler == Constructor("NewHandler", TRUE, "serving")

Next ==
    \/ PrintAndExit
    \/ RejectArguments
    \/ Parse
    \/ NewCh341
    \/ NewDriver
    \/ NewHandler

Spec == Init /\ [][Next]_vars

-----------------------------------------------------------------------------
(* Properties *)

(* What Parse accepts, the constructors accept: a command line either is    *)
(* refused with the usage error 2 or leads to a server whose ring has room  *)
(* for an entry; no constructor finds fault with it afterwards.             *)
AcceptedStarts ==
    /\ pc = "exited" => code # 1
    /\ pc = "serving" => cfg.recentCapacity > 0

(* The server runs with the numbers that were written, none of them cut to  *)
(* a width, and tries each identity that was listed once, in the order in   *)
(* which they were listed first, however often and however spelled.         *)
ServesAsWritten ==
    LET listed == [i \in DOMAIN args.usbIDs |-> <<args.usbIDs[i][1], args.usbIDs[i][2]>>]
        tried == [k \in DOMAIN cfg.usbIDs |-> <<cfg.usbIDs[k].vendor, cfg.usbIDs[k].product>>]
        first(id) == CHOOSE i \in DOMAIN listed :
                         listed[i] = id /\ \A j \in 1 .. i - 1 : listed[j] # id
    IN  pc = "serving" =>
            /\ cfg.i2cAddress = args.i2cAddress
            /\ cfg.speed = args.speed
            /\ Range(tried) = Range(listed)
            /\ \A j, k \in DOMAIN tried : j < k => first(tried[j]) < first(tried[k])

=============================================================================
