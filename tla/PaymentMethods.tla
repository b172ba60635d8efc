---------------------------- MODULE PaymentMethods ----------------------------
(***************************************************************************)
(* The payment methods of one user (settings/paymentMethod.service.ts).    *)
(* A request that makes a method the default first clears the flag of the  *)
(* others; requests that toggle the flag do not.  A new method is never    *)
(* the default, for the controller hands createPaymentMethod a makeDefault *)
(* that no part of the request fills; and none is deleted, for it looks    *)
(* for the id in a property of the string that is the id.  Of a method the *)
(* model keeps the details that must not be entered twice, and the flag.   *)
(***************************************************************************)
EXTENDS Backend

CONSTANTS
    Details,            \* account name, bank and IBAN
    MaxMethods          \* bound on methods ever created

Methods == 1..MaxMethods

ASSUME MethodsAssumption == MaxMethods \in Nat

Method == [details : Details, isDefault : BOOLEAN]

(* isDefault is the value to be written; clears tells whether the flags of *)
(* the others are cleared before.                                          *)
MethodRequest ==
    [pc : {"pm.create"}, details : Details]
    \cup [pc : {"pm.update"}, id : Methods, details : Details \cup {None},
          isDefault : BOOLEAN \cup {None}]
    \cup [pc : {"pm.others", "pm.default"}, id : Methods, isDefault : BOOLEAN, clears : BOOLEAN]

ASSUME MethodNone == {None, Gone} \cap (Details \cup BOOLEAN \cup Method) = {}

VARIABLES
    methods,        \* the table PaymentMethod
    toggled         \* the methods whose flag was set by a toggle and not cleared since

paymentMethods == <<methods, toggled>>

MethodsTypeOK ==
    /\ methods \in [Methods -> Method \cup {None}]
    /\ toggled \subseteq Methods
    /\ req \in [Handlers -> MethodRequest \cup {Idle}]
    /\ faults \in 0..MaxFaults

MethodsInit ==
    /\ methods = [i \in Methods |-> None]
    /\ toggled = {}

Defaults == {i \in Live(methods) : methods[i].isDefault}

(* updateMany({ isDefault: false }) for the methods of a set.              *)
Cleared(set) ==
    [i \in Methods |-> IF i \in set \cap Live(methods)
                       THEN [methods[i] EXCEPT !.isDefault = FALSE] ELSE methods[i]]

-----------------------------------------------------------------------------
(* createPaymentMethod                                                     *)

CreatePaymentMethod(h, d) ==
    /\ Free(h)
    /\ \A i \in Live(methods) : methods[i].details # d
    /\ Begin(h, [pc |-> "pm.create", details |-> d])
    /\ UNCHANGED paymentMethods

InsertMethod(h) ==
    /\ At(h, "pm.create")
    /\ \E i \in Methods :
        /\ IsNext(i, methods)
        /\ methods' = [methods EXCEPT ![i] = [details |-> req[h].details, isDefault |-> FALSE]]
    /\ Done(h)
    /\ UNCHANGED toggled

-----------------------------------------------------------------------------
(* updatePaymentMethod: any value for isDefault toggles what was read.     *)

UpdatePaymentMethod(h, i) ==
    /\ Free(h)
    /\ i \in Live(methods)
    /\ \E d \in Details \cup {None}, flag \in {None, ~methods[i].isDefault} :
        Begin(h, [pc |-> "pm.update", id |-> i, details |-> d, isDefault |-> flag])
    /\ UNCHANGED paymentMethods

WriteMethod(h) ==
    /\ At(h, "pm.update")
    /\ LET i == req[h].id
           Given(new, old) == IF new = None THEN old ELSE new
       IN  /\ methods' = [methods EXCEPT
                ![i] = [details |-> Given(req[h].details, @.details),
                        isDefault |-> Given(req[h].isDefault, @.isDefault)]]
           /\ toggled' = CASE req[h].isDefault = TRUE -> toggled \cup {i}
                            [] req[h].isDefault = FALSE -> toggled \ {i}
                            [] OTHER -> toggled
    /\ Done(h)

-----------------------------------------------------------------------------
(* makePaymentDefault: with a value it is set, without one toggled.        *)

MakePaymentDefault(h, i) ==
    /\ Free(h)
    /\ i \in Live(methods)
    /\ \/ \E value \in BOOLEAN :
            Begin(h, [pc |-> IF value THEN "pm.others" ELSE "pm.default",
                      id |-> i, isDefault |-> value, clears |-> value])
       \/ Begin(h, [pc |-> "pm.default", id |-> i,
                    isDefault |-> ~methods[i].isDefault, clears |-> FALSE])
    /\ UNCHANGED paymentMethods

(* Mutant: the flags of the others stay.                                   *)
KeepOthers(h) ==
    /\ At(h, "pm.others")
    /\ Step(h, "pm.default")
    /\ UNCHANGED paymentMethods

ClearOthers(h) ==
    /\ At(h, "pm.others")
    /\ methods' = Cleared(Methods \ {req[h].id})
    /\ toggled' = toggled \cap {req[h].id}
    /\ Step(h, "pm.default")

SetDefault(h) ==
    /\ At(h, "pm.default")
    /\ LET i == req[h].id
       IN  /\ methods' = [methods EXCEPT ![i].isDefault = req[h].isDefault]
           /\ toggled' = IF req[h].isDefault /\ ~req[h].clears
                         THEN toggled \cup {i} ELSE toggled \ {i}
    /\ Done(h)

-----------------------------------------------------------------------------
MethodsHandler(h) ==
    \/ \E d \in Details : CreatePaymentMethod(h, d)
    \/ InsertMethod(h)
    \/ \E i \in Methods : UpdatePaymentMethod(h, i)
    \/ WriteMethod(h)
    \/ \E i \in Methods : MakePaymentDefault(h, i)
    \/ ClearOthers(h)
    \/ SetDefault(h)

MethodsNext ==
    \/ \E h \in Handlers : MethodsHandler(h)
    \/ Restart /\ UNCHANGED paymentMethods

-----------------------------------------------------------------------------
(* makePaymentDefault clears the others and sets its own method in two     *)
(* calls (lines 154 and 164), so only requests that overlap leave more     *)
(* than one default, and no more than there are requests at a time.        *)
(* Toggled flags are left out: a toggle clears nothing.                    *)
DefaultsBounded == Cardinality(Defaults \ toggled) <= Cardinality(Handlers)
=============================================================================
