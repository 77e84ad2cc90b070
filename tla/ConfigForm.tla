----------------------------- MODULE ConfigForm -----------------------------
(***************************************************************************)
(* The pages that change the configuration (HTTP/httpd_cgi_ssi.c).         *)
(* Config_Handler converts each parameter of the form into its field of a  *)
(* structure on the stack and hands the structure to setConfig; it runs in *)
(* the ETH interrupt, which no caller of Config's actions interrupts.      *)
(***************************************************************************)
EXTENDS Config, Sequences, SequencesExt

CONSTANTS Params,       \* the parameters in the order of the structure
          IntBytes,     \* sizeof(int): what %d and %u store
          One,          \* the byte 1
          Absent,       \* a form's entry for a parameter it does not have
          Forms,        \* the forms submitted
          Stacks        \* the structures Config_Handler may find on its stack

VARIABLE status_index   \* what the page will say
formVars == <<vars, status_index>>

Saved == 9
Rebooting == 10

Number == [1..IntBytes -> Cell]
End(k) == Params[k].first + Params[k].parts * Params[k].width

\* A parameter: its first byte, the bytes between its numbers and their count;
\* whether it is the gateway's address; the status line that complains of it.
\* The structure is packed: a field ends where the next begins, at the latest.
ASSUME ParamAssumption ==
    /\ IntBytes \in Nat
    /\ Params \in Seq([first : BodyAddr, width : 1..IntBytes, parts : Nat \ {0},
                       gate : BOOLEAN, complaint : 0..(Saved - 1)])
    /\ \A k \in DOMAIN Params : /\ End(k) <= Size
                               /\ \A j \in 1..(k - 1) : End(j) <= Params[k].first

\* The first parameter is the local address, which the gateway falls back to.
ASSUME GateAssumption ==
    \A k \in DOMAIN Params : Params[k].gate =>
        k > 1 /\ \A j \in {1, k} : Params[j].width = 1 /\ Params[j].parts = Params[k].parts

\* A form gives each parameter the numbers sscanf converts, low byte first.
ASSUME FormAssumption ==
    /\ One \in Cell /\ Stacks \subseteq Image
    /\ \A form \in Forms : \A k \in DOMAIN Params :
          form[k] # Absent => /\ form[k] \in Seq(Number)
                              /\ Len(form[k]) <= Params[k].parts

FormInit == Init /\ status_index = 0
-----------------------------------------------------------------------------
Place(k, n) == Params[k].first + (n - 1) * Params[k].width

\* sscanf stores an int for each number, whatever the width of the field; the
\* bytes past the structure are not modelled.
Store(n_cfg, at, number) ==
    [i \in Addr |-> IF i \in at..(at + IntBytes - 1) THEN number[i - at + 1] ELSE n_cfg[i]]
Convert(n_cfg, k, numbers) ==
    LET cfg[n \in 0..Len(numbers)] ==
            IF n = 0 THEN n_cfg ELSE Store(cfg[n - 1], Place(k, n), numbers[n])
    IN cfg[Len(numbers)]

\* Lines 187 to 190: the local address with a last octet of 1.
Fallback(n_cfg, k) ==
    [i \in Addr |-> IF i = Place(k, Params[k].parts) THEN One
                    ELSE IF i \in Place(k, 1)..Place(k, Params[k].parts)
                    THEN n_cfg[i - Params[k].first + Params[1].first]
                    ELSE n_cfg[i]]

\* One block of Config_Handler, for a parameter the form has.
Parse(parse, k, numbers) ==
    LET converted == Convert(parse.cfg, k, numbers)
    IN CASE Len(numbers) = Params[k].parts -> [parse EXCEPT !.cfg = converted]
         [] Len(numbers) < Params[k].parts /\ Params[k].gate ->
                [parse EXCEPT !.cfg = Fallback(converted, k)]
         [] OTHER -> [cfg |-> converted, status |-> Params[k].complaint]

\* Mutant: the last parameters of the structure are converted first.
OrderReversed == Reverse([k \in DOMAIN Params |-> k])
Order == [k \in DOMAIN Params |-> k]

\* The first block whose parameter cannot be converted ends the parsing.
Block(parse, form, k) == IF parse.status # Saved \/ form[k] = Absent THEN parse
                         ELSE Parse(parse, k, form[k])
Parsed(form, stack) ==
    LET parse[n \in 0..Len(Params)] ==
            IF n = 0 THEN [cfg |-> stack, status |-> Saved]
            ELSE Block(parse[n - 1], form, Order[n])
    IN parse[Len(Params)]

Outcome == [form \in Forms |-> [stack \in Stacks |-> Parsed(form, stack)]]

Config_Handler(form, stack) ==
    LET parse == Outcome[form][stack]
    IN /\ pc = "run"
       /\ status_index' = parse.status
       /\ IF parse.status = Saved
          THEN SetConfig([i \in BodyAddr |-> parse.cfg[i]])
          ELSE UNCHANGED vars

\* applyConfig only publishes a message; the reboot follows when main() takes it.
Reboot_Handler == /\ pc = "run"
                  /\ status_index' = Rebooting
                  /\ UNCHANGED vars
-----------------------------------------------------------------------------
Stay == (Boot \/ WriteFlash \/ ResetButton) /\ UNCHANGED status_index
Lose == /\ Reboot \/ Crash \/ \E bytes \in SUBSET Addr : CrashErasing(bytes)
        /\ status_index' = 0
FormNext == \/ Stay \/ Lose \/ Reboot_Handler
            \/ \E form \in Forms, stack \in Stacks : Config_Handler(form, stack)

FormSpec == FormInit /\ [][FormNext]_formVars

\* As in Config.
FairFormSpec == FormSpec /\ WF_formVars(Boot /\ UNCHANGED status_index)
                         /\ WF_formVars(WriteFlash /\ UNCHANGED status_index)
-----------------------------------------------------------------------------
\* A form that is accepted sets every field it has a complete parameter for to
\* the number submitted, though each %d stores an int over what lies behind a
\* narrower field; and a gateway that cannot be read becomes the local address
\* with a last octet of 1 (httpd_cgi_ssi.c:184, :204).  A form that is refused
\* changes nothing and complains of the first parameter it cannot read.
Complete(form, k) == form[k] # Absent /\ Len(form[k]) = Params[k].parts
Broken(form, k) == form[k] # Absent /\ ~Complete(form, k)
Follows(cfg, form, k) ==
    /\ Complete(form, k) =>
         \A n \in 1..Params[k].parts, b \in 1..Params[k].width :
            cfg[Place(k, n) + b - 1] = form[k][n][b]
    /\ Broken(form, k) =>
         \A n \in 1..Params[k].parts :
            cfg[Place(k, n)] = IF n = Params[k].parts THEN One ELSE cfg[Place(1, n)]
Fatal(form, k) == Broken(form, k) /\ ~Params[k].gate
Honoured(form) ==
    /\ pc' = "scan"
    /\ \A k \in DOMAIN Params : ~Fatal(form, k) /\ Follows(s_cfg', form, k)
Refused(form) ==
    /\ UNCHANGED vars
    /\ \E k \in DOMAIN Params :
          /\ Fatal(form, k) /\ status_index' = Params[k].complaint
          /\ \A j \in 1..(k - 1) : ~Fatal(form, j)
FormHonoured ==
    [][pc = "run" /\ pc' # "off" /\ status_index' # Rebooting =>
          \A form \in Forms, stack \in Stacks :
             Config_Handler(form, stack) => Honoured(form) \/ Refused(form)]_formVars
=============================================================================
