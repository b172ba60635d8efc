---------------------------- MODULE CatalogueProofs ----------------------------
(***************************************************************************)
(* What is proved about payment methods and about the catalogue of plans,  *)
(* each on its own.                                                        *)
(***************************************************************************)
EXTENDS PaymentMethods, PlanCatalogue, BackendProofs

(* Payment methods.                                                        *)

MethodsSpec ==
    BackendInit /\ MethodsInit /\ [][MethodsNext]_<<backend, paymentMethods>>

(* Handlers that have cleared the flags of the others and will set one.    *)
Choosing == {h \in Handlers : At(h, "pm.default") /\ req[h].clears}

(* The methods that are the default, or will be.  Several handlers may     *)
(* choose the same; what they choose they need not add to what is there,   *)
(* for the one who cleared the others last left at most its own.           *)
Chosen == {req[h].id : h \in Choosing}
Due == (Defaults \ toggled) \cup Chosen
DueBounded == Cardinality(Due) <= Cardinality(Handlers)

(* A method that a handler found is there when it writes it.               *)
Found(r) == r.pc \in {"pm.update", "pm.others", "pm.default"} => r.id \in Live(methods)
FoundStays == \A h \in Handlers : Found(req[h])

MethodsInv == MethodsTypeOK /\ FoundStays /\ DueBounded

DueNumbers ==
    /\ IsFiniteSet(Due) /\ Cardinality(Due) \in Nat
    /\ Cardinality(Chosen) \in Nat /\ Cardinality(Handlers) \in Nat
    /\ Cardinality(Chosen) <= Cardinality(Handlers)

LEMMA DueIsFinite == MethodsTypeOK => DueNumbers
<1> SUFFICES ASSUME MethodsTypeOK PROVE DueNumbers
  OBVIOUS
<1>1. Choosing \in SUBSET Handlers BY DEF Choosing
<1>2. Cardinality(Choosing) \in Nat /\ Cardinality(Handlers) \in Nat BY <1>1, HandlerCount
<1>3. Cardinality(Choosing) <= Cardinality(Handlers) BY <1>1, HandlerCount
<1>4. IsFiniteSet(Chosen) /\ Cardinality(Chosen) <= Cardinality(Choosing)
  <2> DEFINE f == [h \in Handlers |-> req[h].id]
  <2>1. Chosen = {f[h] : h \in Choosing} BY <1>1 DEF Chosen
  <2> HIDE DEF f
  <2>q. QED BY <2>1, <1>1, ChosenByHandlers
<1>5. IsFiniteSet(Due)
  <2>1. IsFiniteSet(Methods) BY MethodsAssumption, FS_Interval DEF Methods
  <2>2. Defaults \ toggled \in SUBSET Methods BY DEF MethodsTypeOK, Defaults, Live
  <2>3. IsFiniteSet(Defaults \ toggled) BY <2>1, <2>2, FS_Subset
  <2>q. QED BY <2>3, <1>4, FS_Union DEF Due
<1>6. Cardinality(Chosen) \in Nat /\ Cardinality(Due) \in Nat
  BY <1>4, <1>5, FS_CardinalityType
<1>q. QED BY <1>2, <1>3, <1>4, <1>5, <1>6 DEF DueNumbers

LEMMA DueStaysFinite == MethodsTypeOK' => DueNumbers'
  BY DueIsFinite, PTL

LEMMA FoundIsKept ==
  ASSUME FoundStays, Live(methods) \subseteq Live(methods)',
         \A k \in Handlers : req'[k] = req[k] \/ Found(req'[k])
  PROVE  FoundStays'
<1>1. ASSUME NEW k \in Handlers PROVE Found(req[k])'
  <2>1. Found(req'[k]) BY DEF FoundStays
  <2>q. QED BY <2>1 DEF Found
<1>q. QED BY <1>1 DEF FoundStays

(* Nothing is due that was not, and no handler comes to the point of       *)
(* setting a flag.                                                         *)
LEMMA MethodsMove ==
  ASSUME MethodsInv, MethodsTypeOK', Defaults' \ toggled' \subseteq Due,
         Live(methods) \subseteq Live(methods)',
         \A k \in Handlers :
            \/ req'[k] = req[k]
            \/ ~(At(k, "pm.default")' /\ req'[k].clears) /\ Found(req'[k])
  PROVE  MethodsInv'
<1>0. FoundStays' BY FoundIsKept DEF MethodsInv
<1>1. Choosing' \in SUBSET Choosing BY DEF Choosing, At
<1>2. \A k \in Choosing' : req'[k].id = req[k].id BY DEF Choosing
<1>3. Due' \in SUBSET Due BY <1>1, <1>2 DEF Due, Chosen
<1>4. Cardinality(Due') <= Cardinality(Due) BY <1>3, DueIsFinite, FS_Subset DEF MethodsInv, DueNumbers
<1>5. /\ Cardinality(Due) \in Nat /\ Cardinality(Handlers) \in Nat
  BY DueIsFinite DEF MethodsInv, DueNumbers
<1>6. Cardinality(Due)' \in Nat BY DueStaysFinite DEF DueNumbers
<1>7. DueBounded' BY <1>4, <1>5, <1>6 DEF MethodsInv, DueBounded
<1>q. QED BY <1>0, <1>7 DEF MethodsInv

(* After the flags were cleared, what is due is what handlers have chosen. *)
LEMMA OnlyChosen ==
  ASSUME MethodsTypeOK', FoundStays', Defaults' \ toggled' \subseteq Chosen'
  PROVE  MethodsInv'
<1>1. Due' = Chosen' BY DEF Due
<1>2. Cardinality(Chosen') <= Cardinality(Handlers) BY DueStaysFinite DEF DueNumbers
<1>q. QED BY <1>1, <1>2 DEF MethodsInv, DueBounded

LEMMA MethodRequestKinds ==
  ASSUME NEW r, r \in MethodRequest \cup {Idle}
  PROVE  /\ r.pc = "pm.create" => r \in [pc : {"pm.create"}, details : Details]
         /\ r.pc = "pm.update" =>
                r \in [pc : {"pm.update"}, id : Methods, details : Details \cup {None},
                       isDefault : BOOLEAN \cup {None}]
         /\ r.pc \in {"pm.others", "pm.default"} =>
                r \in [pc : {"pm.others", "pm.default"}, id : Methods, isDefault : BOOLEAN,
                       clears : BOOLEAN]
  BY DEF MethodRequest, Idle

(* Which methods of a set are still the default after the flags of the set *)
(* were cleared.                                                           *)
LEMMA ClearedMethods ==
  ASSUME MethodsTypeOK, NEW S, methods' = Cleared(S)
  PROVE  /\ methods' \in [Methods -> Method \cup {None}]
         /\ Defaults' \cap S = {}
         /\ Live(methods) \subseteq Live(methods)'
<1>1. methods' \in [Methods -> Method \cup {None}]
  <2> SUFFICES ASSUME NEW i \in Methods PROVE methods'[i] \in Method \cup {None}
    BY DEF Cleared
  <2>1. CASE i \in S \cap Live(methods)
    <3>1. methods[i] \in Method BY <2>1 DEF Live, MethodsTypeOK
    <3>q. QED BY <2>1, <3>1 DEF Cleared, Method
  <2>2. CASE i \notin S \cap Live(methods) BY <2>2 DEF Cleared, MethodsTypeOK
  <2>q. QED BY <2>1, <2>2
<1>2. ASSUME NEW i \in Defaults', i \in S PROVE FALSE
  <2>1. i \in Methods /\ methods'[i] \notin {None, Gone} /\ methods'[i].isDefault
    BY <1>1 DEF Defaults, Live
  <2>2. CASE i \in Live(methods)
    <3>1. methods[i] \in Method BY <2>2 DEF Live, MethodsTypeOK
    <3>2. methods'[i] = [methods[i] EXCEPT !.isDefault = FALSE] BY <1>2, <2>1, <2>2 DEF Cleared
    <3>q. QED BY <2>1, <3>1, <3>2 DEF Method
  <2>3. CASE i \notin Live(methods)
    <3>1. methods'[i] = methods[i] BY <1>2, <2>1, <2>3 DEF Cleared
    <3>q. QED BY <2>1, <2>3, <3>1 DEF Live, MethodsTypeOK
  <2>q. QED BY <2>2, <2>3
<1>3. ASSUME NEW i \in Live(methods) PROVE i \in Live(methods)'
  <2>1. i \in Methods /\ methods[i] \in Method BY DEF Live, MethodsTypeOK
  <2>2. methods'[i] \in Method BY <2>1 DEF Cleared, Method
  <2>q. QED BY <1>1, <2>1, <2>2, MethodNone DEF Live
<1>q. QED BY <1>1, <1>2, <1>3

(* One method is written: it becomes the default only if it was due, or is *)
(* among the toggled.                                                      *)
LEMMA OneMethodWritten ==
  ASSUME MethodsTypeOK, NEW i \in Methods, NEW m \in Method,
         methods' = [methods EXCEPT ![i] = m],
         toggled' \in SUBSET Methods, toggled \ {i} \subseteq toggled',
         m.isDefault => i \in toggled' \/ i \in Due
  PROVE  /\ methods' \in [Methods -> Method \cup {None}]
         /\ Defaults' \ toggled' \subseteq Due
         /\ Live(methods) \subseteq Live(methods)'
<1>1. methods' \in [Methods -> Method \cup {None}] BY DEF MethodsTypeOK
<1>2. \A j \in Methods \ {i} : methods'[j] = methods[j] BY DEF MethodsTypeOK
<1>3. methods'[i] = m BY DEF MethodsTypeOK
<1>4. ASSUME NEW j \in Defaults' \ toggled' PROVE j \in Due
  <2>1. j \in Methods /\ methods'[j] \notin {None, Gone} /\ methods'[j].isDefault
    BY <1>1 DEF Defaults, Live
  <2>2. CASE j = i BY <1>3, <1>4, <2>1, <2>2
  <2>3. CASE j # i
    <3>1. methods[j] = methods'[j] /\ j \notin toggled BY <1>2, <1>4, <2>1, <2>3
    <3>q. QED BY <2>1, <3>1 DEF Due, Defaults, Live, MethodsTypeOK
  <2>q. QED BY <2>2, <2>3
<1>5. ASSUME NEW j \in Live(methods) PROVE j \in Live(methods)'
  <2>1. j \in Methods /\ methods[j] \notin {None, Gone} BY DEF Live, MethodsTypeOK
  <2>2. methods'[j] \notin {None, Gone} BY <1>2, <1>3, <2>1, MethodNone
  <2>q. QED BY <1>1, <2>1, <2>2 DEF Live
<1>q. QED BY <1>1, <1>4, <1>5

LEMMA MethodsStep ==
  ASSUME MethodsInv, NEW h \in Handlers, MethodsHandler(h)
  PROVE  MethodsInv'
<1>t. MethodsTypeOK /\ FoundStays /\ DueBounded BY DEF MethodsInv
<1>r. /\ req \in [Handlers -> MethodRequest \cup {Idle}]
      /\ req[h] \in MethodRequest \cup {Idle}
      /\ faults \in 0..MaxFaults
      /\ toggled \in SUBSET Methods
      /\ methods \in [Methods -> Method \cup {None}]
  BY <1>t DEF MethodsTypeOK
<1>a. Idle.pc = "idle" BY DEF Idle
<1>m. \A i \in Live(methods) : i \in Methods /\ methods[i] \in Method BY <1>r DEF Live
<1>n. Defaults \ toggled \subseteq Due BY DEF Due
(* A request that leaves the tables alone and sets no flag yet.            *)
<1>b. ASSUME NEW r \in MethodRequest, Begin(h, r), UNCHANGED paymentMethods,
             r.pc # "pm.default" \/ ~r.clears, Found(r)
      PROVE  MethodsInv'
  <2>1. /\ req'[h] = r /\ \A k \in Handlers \ {h} : req'[k] = req[k]
        /\ req' \in [Handlers -> MethodRequest \cup {Idle}] /\ faults' = faults
    BY <1>r, <1>b, BeginChange
  <2>2. methods' = methods /\ toggled' = toggled BY <1>b DEF paymentMethods
  <2>3. MethodsTypeOK' BY <1>r, <2>1, <2>2 DEF MethodsTypeOK
  <2>4. Defaults' = Defaults /\ Live(methods)' = Live(methods) BY <2>2 DEF Defaults, Live
  <2>q. QED BY <1>b, <1>n, <2>1, <2>2, <2>3, <2>4, MethodsMove DEF At
(* An answer: what is written was due, or is toggled.                      *)
<1>d. ASSUME Done(h), methods' \in [Methods -> Method \cup {None}],
             toggled' \in SUBSET Methods, Defaults' \ toggled' \subseteq Due,
             Live(methods) \subseteq Live(methods)'
      PROVE  MethodsInv'
  <2>1. /\ req'[h] = Idle /\ \A k \in Handlers \ {h} : req'[k] = req[k]
        /\ req' \in [Handlers -> MethodRequest \cup {Idle}] /\ faults' = faults
    BY <1>r, <1>d, DoneChange
  <2>2. MethodsTypeOK' BY <1>r, <1>d, <2>1 DEF MethodsTypeOK
  <2>3. Found(req'[h]) BY <1>a, <2>1 DEF Found
  <2>q. QED BY <1>a, <1>d, <2>1, <2>2, <2>3, MethodsMove DEF At
<1>1. ASSUME NEW d \in Details, CreatePaymentMethod(h, d) PROVE MethodsInv'
  <2> DEFINE r == [pc |-> "pm.create", details |-> d]
  <2>1. r \in MethodRequest /\ r.pc = "pm.create" BY DEF MethodRequest
  <2>2. Begin(h, r) /\ UNCHANGED paymentMethods BY <1>1 DEF CreatePaymentMethod
  <2> HIDE DEF r
  <2>3. Found(r) BY <2>1 DEF Found
  <2>q. QED BY <1>b, <2>1, <2>2, <2>3
<1>2. CASE InsertMethod(h)
  <2>1. req[h] \in [pc : {"pm.create"}, details : Details]
    BY <1>2, <1>r, <1>a, MethodRequestKinds DEF InsertMethod, At
  <2> DEFINE m == [details |-> req[h].details, isDefault |-> FALSE]
  <2>2. PICK i \in Methods : methods[i] = None /\ methods' = [methods EXCEPT ![i] = m]
    BY <1>2 DEF InsertMethod, IsNext
  <2>3. Done(h) /\ toggled' = toggled BY <1>2 DEF InsertMethod
  <2>4. m \in Method /\ ~m.isDefault BY <2>1 DEF Method
  <2> HIDE DEF m
  <2>5. /\ methods' \in [Methods -> Method \cup {None}]
        /\ Defaults' \ toggled' \subseteq Due
        /\ Live(methods) \subseteq Live(methods)'
    BY <1>t, <1>r, <2>2, <2>3, <2>4, OneMethodWritten
  <2>q. QED BY <1>d, <1>r, <2>3, <2>5
<1>3. ASSUME NEW i \in Methods, UpdatePaymentMethod(h, i) PROVE MethodsInv'
  <2>1. PICK d \in Details \cup {None}, flag \in {None, ~methods[i].isDefault} :
            Begin(h, [pc |-> "pm.update", id |-> i, details |-> d, isDefault |-> flag])
    BY <1>3 DEF UpdatePaymentMethod
  <2> DEFINE r == [pc |-> "pm.update", id |-> i, details |-> d, isDefault |-> flag]
  <2>2. r \in MethodRequest /\ r.pc = "pm.update" /\ r.id = i BY DEF MethodRequest
  <2>3. Begin(h, r) /\ UNCHANGED paymentMethods /\ i \in Live(methods)
    BY <1>3, <2>1 DEF UpdatePaymentMethod
  <2> HIDE DEF r
  <2>q. QED BY <1>b, <2>2, <2>3 DEF Found
<1>4. CASE WriteMethod(h)
  <2>1. /\ req[h] \in [pc : {"pm.update"}, id : Methods, details : Details \cup {None},
                       isDefault : BOOLEAN \cup {None}]
    BY <1>4, <1>r, <1>a, MethodRequestKinds DEF WriteMethod, At
  <2> DEFINE i == req[h].id
             flag == req[h].isDefault
             m == [details |-> IF req[h].details = None THEN methods[i].details
                               ELSE req[h].details,
                   isDefault |-> IF flag = None THEN methods[i].isDefault ELSE flag]
  <2>2. Done(h) BY <1>4 DEF WriteMethod
  <2>3. i \in Methods /\ methods[i] \in Method
    <3>1. req[h].pc = "pm.update" BY <1>4 DEF WriteMethod, At
    <3>2. i \in Live(methods) BY <1>t, <3>1 DEF FoundStays, Found
    <3>q. QED BY <1>m, <3>2
  <2>4. m \in Method /\ m.isDefault = IF flag = None THEN methods[i].isDefault ELSE flag
    BY <2>1, <2>3 DEF Method
  <2>5. methods' = [methods EXCEPT ![i] = m] BY <1>4 DEF WriteMethod
  <2>6. flag = TRUE \/ flag = FALSE \/ flag = None BY <2>1
  <2>7. /\ flag = TRUE => toggled' = toggled \cup {i}
        /\ flag = FALSE => toggled' = toggled \ {i}
        /\ flag = None => toggled' = toggled
    BY <1>4, MethodNone DEF WriteMethod
  <2>8. m.isDefault => i \in toggled' \/ i \in Due
    <3>1. CASE flag = TRUE BY <2>7, <3>1
    <3>2. CASE flag = FALSE BY <2>4, <3>2, MethodNone
    <3>3. CASE flag = None
      <4>1. i \in Live(methods) BY <2>3, <1>r, MethodNone DEF Live
      <4>q. QED BY <1>n, <2>4, <2>7, <3>3, <4>1 DEF Defaults
    <3>q. QED BY <2>6, <3>1, <3>2, <3>3
  <2>9. toggled' \in SUBSET Methods /\ toggled \ {i} \subseteq toggled'
    BY <1>r, <2>3, <2>6, <2>7
  <2> HIDE DEF m, i, flag
  <2>10. /\ methods' \in [Methods -> Method \cup {None}]
         /\ Defaults' \ toggled' \subseteq Due
         /\ Live(methods) \subseteq Live(methods)'
    BY <1>t, <2>3, <2>4, <2>5, <2>8, <2>9, OneMethodWritten
  <2>q. QED BY <1>d, <2>2, <2>9, <2>10
<1>5. ASSUME NEW i \in Methods, MakePaymentDefault(h, i) PROVE MethodsInv'
  <2>1. UNCHANGED paymentMethods /\ i \in Live(methods) BY <1>5 DEF MakePaymentDefault
  <2>2. CASE \E value \in BOOLEAN :
                Begin(h, [pc |-> IF value THEN "pm.others" ELSE "pm.default",
                          id |-> i, isDefault |-> value, clears |-> value])
    <3>1. PICK value \in BOOLEAN :
                Begin(h, [pc |-> IF value THEN "pm.others" ELSE "pm.default",
                          id |-> i, isDefault |-> value, clears |-> value])
      BY <2>2
    <3> DEFINE r == [pc |-> IF value THEN "pm.others" ELSE "pm.default",
                     id |-> i, isDefault |-> value, clears |-> value]
    <3>2. r \in MethodRequest /\ (r.pc # "pm.default" \/ ~r.clears) /\ r.id = i
      BY DEF MethodRequest
    <3>3. Begin(h, r) BY <3>1
    <3> HIDE DEF r
    <3>q. QED BY <1>b, <2>1, <3>2, <3>3 DEF Found
  <2>3. CASE Begin(h, [pc |-> "pm.default", id |-> i,
                       isDefault |-> ~methods[i].isDefault, clears |-> FALSE])
    <3> DEFINE r == [pc |-> "pm.default", id |-> i,
                     isDefault |-> ~methods[i].isDefault, clears |-> FALSE]
    <3>1. r \in MethodRequest /\ r.pc = "pm.default" /\ ~r.clears /\ r.id = i
      BY DEF MethodRequest
    <3>2. Begin(h, r) BY <2>3
    <3> HIDE DEF r
    <3>q. QED BY <1>b, <2>1, <3>1, <3>2 DEF Found
  <2>q. QED BY <1>5, <2>2, <2>3 DEF MakePaymentDefault
<1>6. CASE ClearOthers(h)
  <2>1. /\ req[h] \in [pc : {"pm.others", "pm.default"}, id : Methods, isDefault : BOOLEAN,
                       clears : BOOLEAN]
    BY <1>6, <1>r, <1>a, MethodRequestKinds DEF ClearOthers, At
  <2> DEFINE r == [req[h] EXCEPT !.pc = "pm.default"]
             i == req[h].id
  <2>2. r \in MethodRequest /\ r.pc = "pm.default" /\ r.id = i /\ r.clears = req[h].clears
    BY <2>1 DEF MethodRequest
  <2>3. /\ req'[h] = r /\ req' \in [Handlers -> MethodRequest \cup {Idle}] /\ faults' = faults
    <3>1. Step(h, "pm.default") BY <1>6 DEF ClearOthers
    <3>2. [req[h] EXCEPT !.pc = "pm.default"] \in MethodRequest BY <2>2
    <3> HIDE DEF r
    <3>3. /\ req'[h] = [req[h] EXCEPT !.pc = "pm.default"]
          /\ req' \in [Handlers -> MethodRequest \cup {Idle}] /\ faults' = faults
      BY <1>r, <3>1, <3>2, StepChange
    <3>q. QED BY <3>3 DEF r
  <2>4. methods' = Cleared(Methods \ {i}) /\ toggled' = toggled \cap {i}
    BY <1>6 DEF ClearOthers
  <2> HIDE DEF r
  <2>5. /\ methods' \in [Methods -> Method \cup {None}]
        /\ Defaults' \cap (Methods \ {i}) = {}
        /\ Live(methods) \subseteq Live(methods)'
    BY <1>t, <2>4, ClearedMethods
  <2>6. Defaults' \in SUBSET {i} BY <2>5 DEF Defaults, Live
  <2>7. MethodsTypeOK' BY <1>r, <2>3, <2>4, <2>5 DEF MethodsTypeOK
  <2>k. \A k \in Handlers \ {h} : req'[k] = req[k]
    BY <1>6, <1>r DEF ClearOthers, Step
  <2>f. Found(req'[h])
    <3>1. req[h].pc = "pm.others" BY <1>6 DEF ClearOthers, At
    <3>q. QED BY <1>t, <2>2, <2>3, <3>1 DEF FoundStays, Found
  <2>s. FoundStays' BY <1>t, <2>5, <2>k, <2>f, FoundIsKept
  <2>8. CASE req[h].clears
    <3>1. h \in Choosing' /\ req'[h].id = i BY <2>2, <2>3, <2>8 DEF Choosing, At
    <3>2. i \in Chosen' BY <3>1 DEF Chosen
    <3>q. QED BY <2>6, <2>7, <2>s, <3>2, OnlyChosen
  <2>9. CASE ~req[h].clears
    <3>1. Defaults' \ toggled' \subseteq Due
      <4> SUFFICES ASSUME i \in Defaults' \ toggled' PROVE i \in Due
        BY <2>6
      <4>1. methods'[i] = methods[i] BY <2>1, <2>4 DEF Cleared
      <4>2. i \in Defaults BY <1>r, <2>1, <2>5, <4>1 DEF Defaults, Live
      <4>q. QED BY <1>n, <2>4, <4>2
    <3>q. QED BY <2>2, <2>3, <2>5, <2>7, <2>9, <2>k, <2>f, <3>1, MethodsMove DEF At
  <2>q. QED BY <2>8, <2>9
<1>7. CASE SetDefault(h)
  <2>1. /\ req[h] \in [pc : {"pm.others", "pm.default"}, id : Methods, isDefault : BOOLEAN,
                       clears : BOOLEAN]
        /\ req[h].pc = "pm.default"
    BY <1>7, <1>r, <1>a, MethodRequestKinds DEF SetDefault, At
  <2> DEFINE i == req[h].id
             m == [methods[i] EXCEPT !.isDefault = req[h].isDefault]
  <2>2. Done(h) BY <1>7 DEF SetDefault
  <2>3. i \in Methods /\ methods[i] \in Method
    <3>1. i \in Live(methods) BY <1>t, <2>1 DEF FoundStays, Found
    <3>q. QED BY <1>m, <3>1
  <2>4. m \in Method /\ m.isDefault = req[h].isDefault BY <2>1, <2>3 DEF Method
  <2>5. methods' = [methods EXCEPT ![i] = m] BY <1>7 DEF SetDefault
  <2>6. toggled' = IF req[h].isDefault /\ ~req[h].clears THEN toggled \cup {i}
                   ELSE toggled \ {i}
    BY <1>7 DEF SetDefault
  <2>7. req[h].clears => i \in Due BY <2>1 DEF Due, Chosen, Choosing, At
  <2>8. m.isDefault => i \in toggled' \/ i \in Due BY <2>4, <2>6, <2>7
  <2>9. toggled' \in SUBSET Methods /\ toggled \ {i} \subseteq toggled' BY <1>r, <2>3, <2>6
  <2> HIDE DEF m, i
  <2>10. /\ methods' \in [Methods -> Method \cup {None}]
         /\ Defaults' \ toggled' \subseteq Due
         /\ Live(methods) \subseteq Live(methods)'
    BY <1>t, <2>3, <2>4, <2>5, <2>8, <2>9, OneMethodWritten
  <2>q. QED BY <1>d, <2>2, <2>9, <2>10
<1>q. QED BY <1>1, <1>2, <1>3, <1>4, <1>5, <1>6, <1>7 DEF MethodsHandler

LEMMA MethodsInvariance == MethodsSpec => []MethodsInv
<1>1. BackendInit /\ MethodsInit => MethodsInv
  <2> SUFFICES ASSUME BackendInit, MethodsInit PROVE MethodsInv
    OBVIOUS
  <2>1. /\ req \in [Handlers -> MethodRequest \cup {Idle}]
        /\ \A k \in Handlers : req[k] = Idle
        /\ faults \in 0..MaxFaults
    BY InitialRequests
  <2>2. MethodsTypeOK BY <2>1 DEF MethodsInit, MethodsTypeOK
  <2>3. Choosing = {} /\ FoundStays BY <2>1 DEF Choosing, FoundStays, Found, At, Idle
  <2>4. Defaults = {} BY DEF Defaults, Live, MethodsInit
  <2>5. Due = {} BY <2>3, <2>4 DEF Due, Chosen
  <2>6. Cardinality(Due) = 0 BY <2>5, FS_EmptySet
  <2>7. Cardinality(Handlers) \in Nat BY <2>2, DueIsFinite DEF DueNumbers
  <2>q. QED BY <2>2, <2>3, <2>6, <2>7 DEF MethodsInv, DueBounded
<1>2. MethodsInv /\ [MethodsNext]_<<backend, paymentMethods>> => MethodsInv'
  <2> SUFFICES ASSUME MethodsInv, [MethodsNext]_<<backend, paymentMethods>>
               PROVE  MethodsInv'
    OBVIOUS
  <2>n. Defaults \ toggled \subseteq Due BY DEF Due
  <2>1. CASE UNCHANGED <<backend, paymentMethods>>
    <3>1. UNCHANGED <<req, faults, methods, toggled>>
      BY <2>1 DEF backend, paymentMethods
    <3>2. MethodsTypeOK' BY <3>1 DEF MethodsInv, MethodsTypeOK
    <3>3. Defaults' = Defaults /\ Live(methods)' = Live(methods) BY <3>1 DEF Defaults, Live
    <3>q. QED BY <2>n, <3>1, <3>2, <3>3, MethodsMove
  <2>2. CASE Restart /\ UNCHANGED paymentMethods
    <3>1. /\ \A k \in Handlers : req'[k] = Idle
          /\ req' \in [Handlers -> MethodRequest \cup {Idle}]
          /\ faults' \in 0..MaxFaults
      BY <2>2, RestartChange DEF MethodsInv, MethodsTypeOK
    <3>2. UNCHANGED <<methods, toggled>> BY <2>2 DEF paymentMethods
    <3>3. MethodsTypeOK' BY <3>1, <3>2 DEF MethodsInv, MethodsTypeOK
    <3>4. Defaults' = Defaults /\ Live(methods)' = Live(methods) BY <3>2 DEF Defaults, Live
    <3>q. QED BY <2>n, <3>1, <3>2, <3>3, <3>4, MethodsMove DEF At, Idle, Found
  <2>q. QED BY <2>1, <2>2, MethodsStep DEF MethodsNext
<1>q. QED BY <1>1, <1>2, PTL DEF MethodsSpec

(* Of the defaults that no toggle set there are at most as many as         *)
(* requests at a time: updateMany clears the flags before, but not         *)
(* together with, the update that sets one (paymentMethod.service.ts).     *)
THEOREM DefaultsAreBounded == MethodsSpec => []DefaultsBounded
<1>1. MethodsInv => DefaultsBounded
  <2> SUFFICES ASSUME MethodsInv PROVE DefaultsBounded
    OBVIOUS
  <2>1. IsFiniteSet(Due) /\ Cardinality(Due) \in Nat /\ Cardinality(Handlers) \in Nat
    BY DueIsFinite DEF MethodsInv, DueNumbers
  <2>2. Defaults \ toggled \in SUBSET Due BY DEF Due
  <2>3. /\ IsFiniteSet(Defaults \ toggled)
        /\ Cardinality(Defaults \ toggled) <= Cardinality(Due)
    BY <2>1, <2>2, FS_Subset
  <2>4. Cardinality(Defaults \ toggled) \in Nat BY <2>3, FS_CardinalityType
  <2>q. QED BY <2>1, <2>3, <2>4 DEF MethodsInv, DueBounded, DefaultsBounded
<1>q. QED BY <1>1, MethodsInvariance, PTL
-----------------------------------------------------------------------------
(* The catalogue of plans.                                                 *)

CatalogueSpec ==
    BackendInit /\ CatalogueInit /\ [][CatalogueNext]_<<backend, planCatalogue>>

Buying == {"buy.history", "upgrade.find", "upgrade.write"} \cup Charging

(* What a price at Stripe takes is the amount a customer was shown, and as *)
(* long as no upgrade overtakes the request, the history owes as much.     *)
Takes(s, amount) == s \in StripePrices /\ atStripe[s] = amount
Owes(h) ==
    req[h].pc \in Charging /\ h \notin overtaken =>
        histories[req[h].history].amount = req[h].read.amount

(* Whoever replaces prices has new ones.  The row a customer buys keeps    *)
(* its amount as long as it is there, for it is replaced and never edited, *)
(* and its id does not come back; the price of the session is of the       *)
(* amount that was read.                                                   *)
CatalogueIsBacked(r) ==
    /\ r.pc \in {"plan.drop", "plan.prices"} => r.amount \in Amounts
    /\ r.pc \in Buying =>
        /\ pricing[r.row] # None
        /\ pricing[r.row] # Gone => pricing[r.row].amount = r.read.amount
        /\ r.read.stripePriceId # None => Takes(r.read.stripePriceId, r.read.amount)
    /\ r.pc = "buy.get" => r.read.stripePriceId # None
    /\ r.pc \in Charging \cup {"upgrade.write"} =>
            r.history \in Histories /\ histories[r.history] # None
    /\ r.pc \in {"buy.store", "buy.session", "buy.record"} => Takes(r.price, r.read.amount)

CatalogueRequestsAreBacked == \A h \in Handlers : CatalogueIsBacked(req[h])
HistoriesAreOwed == \A h \in Handlers : Owes(h)

(* A row with a price at Stripe has one of its amount.                     *)
RowsArePriced ==
    \A r \in Live(pricing) :
        pricing[r].stripePriceId # None => Takes(pricing[r].stripePriceId, pricing[r].amount)

BuyInv ==
    /\ CatalogueTypeOK
    /\ CatalogueRequestsAreBacked
    /\ HistoriesAreOwed
    /\ RowsArePriced
    /\ SessionChargesHistory

(* Rows and requests are of plans that were created; of those that are not *)
(* deleted the prices there are, and those about to be written, are as     *)
(* many as PricingReplaced says.                                           *)
OnPlan == {"plan.delete", "plan.update", "plan.drop", "plan.prices"}
OfPlansThatWere ==
    /\ \A r \in Live(pricing) : plans[pricing[r].plan] # None
    /\ \A h \in Handlers : req[h].pc \in OnPlan => plans[req[h].plan] # None

OfferInv == OfPlansThatWere /\ PricingReplaced

(* The kinds of requests.                                                  *)
Inserting == [pc : {"plan.insert"}, name : PlanNames, amount : Amounts \cup {None}]
DeletingPlan == [pc : {"plan.delete"}, plan : Plans]
Updating == [pc : {"plan.update", "plan.drop", "plan.prices"}, plan : Plans,
             amount : Amounts \cup {None}]
BuyRequest == [pc : Buying, row : Rows, read : Pricing, history : Histories \cup {None},
               price : StripePrices \cup {None}]

LEMMA CatalogueKinds ==
  ASSUME NEW r, r \in CatalogueRequest \cup {Idle}
  PROVE  /\ r.pc = "plan.insert" => r \in Inserting
         /\ r.pc = "plan.delete" => r \in DeletingPlan
         /\ r.pc \in {"plan.update", "plan.drop", "plan.prices"} => r \in Updating
         /\ r.pc \in Buying => r \in BuyRequest
  BY DEF CatalogueRequest, Inserting, DeletingPlan, Updating, BuyRequest, Buying, Charging, Idle

LEMMA CatalogueKindsAreRequests ==
  /\ Inserting \subseteq CatalogueRequest
  /\ DeletingPlan \subseteq CatalogueRequest
  /\ Updating \subseteq CatalogueRequest
  /\ BuyRequest \subseteq CatalogueRequest
  BY DEF CatalogueRequest, Inserting, DeletingPlan, Updating, BuyRequest, Buying

(* What is at Stripe stays, and so does a history; a row keeps its amount  *)
(* until it is deleted, and does not come back.                            *)
CatalogueGrows ==
    /\ \A s \in StripePrices : atStripe[s] # None => atStripe'[s] = atStripe[s]
    /\ \A i \in Histories : histories[i] # None => histories'[i] # None
    /\ \A r \in Rows : pricing[r] # None =>
            /\ pricing'[r] # None
            /\ pricing'[r] # Gone => /\ pricing[r] # Gone
                                     /\ pricing'[r].amount = pricing[r].amount
                                     /\ pricing'[r].plan = pricing[r].plan

LEMMA TakesStays ==
  ASSUME CatalogueGrows, NEW s, NEW amount \in Amounts, Takes(s, amount)
  PROVE  Takes(s, amount)'
  BY CatalogueNone DEF Takes, CatalogueGrows

LEMMA OwedStays ==
  ASSUME HistoriesAreOwed, NEW h \in Handlers, \A k \in Handlers \ {h} : req'[k] = req[k],
         UNCHANGED <<histories, overtaken>>, Owes(h)'
  PROVE  HistoriesAreOwed'
  BY DEF HistoriesAreOwed, Owes

(* A request that waits stays backed.                                      *)
LEMMA BackingStays ==
  ASSUME CatalogueTypeOK, CatalogueGrows, NEW q \in CatalogueRequest \cup {Idle},
         CatalogueIsBacked(q)
  PROVE  CatalogueIsBacked(q)'
<1>1. CASE q.pc \in Buying
  <2>1. /\ q \in BuyRequest /\ q.read \in Pricing /\ q.read.amount \in Amounts /\ q.row \in Rows
    BY <1>1, CatalogueKinds DEF BuyRequest, Pricing
  <2>2. q.read.stripePriceId # None => Takes(q.read.stripePriceId, q.read.amount)'
    BY <1>1, <2>1, TakesStays DEF CatalogueIsBacked
  <2>3. q.pc \in {"buy.store", "buy.session", "buy.record"} => Takes(q.price, q.read.amount)'
    BY <1>1, <2>1, TakesStays DEF CatalogueIsBacked
  <2>4. q.pc \in Charging \cup {"upgrade.write"} =>
            q.history \in Histories /\ histories'[q.history] # None
    BY <1>1, <2>1 DEF CatalogueIsBacked, CatalogueGrows
  <2>5. /\ pricing'[q.row] # None
        /\ pricing'[q.row] # Gone => pricing'[q.row].amount = q.read.amount
    BY <1>1, <2>1 DEF CatalogueIsBacked, CatalogueGrows
  <2>6. ~(q.pc \in {"plan.drop", "plan.prices"}) BY <1>1 DEF Buying, Charging
  <2>7. q.pc = "buy.get" => q.read.stripePriceId # None BY DEF CatalogueIsBacked
  <2>q. QED BY <2>2, <2>3, <2>4, <2>5, <2>6, <2>7 DEF CatalogueIsBacked
<1>2. CASE q.pc \notin Buying
  BY <1>2 DEF CatalogueIsBacked, Buying, Charging
<1>q. QED BY <1>1, <1>2

LEMMA BuyMove ==
  ASSUME BuyInv, CatalogueTypeOK', CatalogueGrows,
         \A k \in Handlers : req'[k] = req[k] \/ CatalogueIsBacked(req[k])',
         HistoriesAreOwed',
         \A r \in Rows :
            \/ pricing'[r] \in {None, Gone} \/ pricing'[r] = pricing[r]
            \/ pricing'[r].stripePriceId = None
            \/ Takes(pricing[r].stripePriceId, pricing[r].amount)',
         \A i \in Histories :
            \/ histories'[i] = None \/ i \in mixed'
            \/ histories'[i] = histories[i] /\ i \notin mixed
            \/ histories'[i].session = None
            \/ Takes(histories[i].session, histories[i].amount)'
  PROVE  BuyInv'
<1>t. CatalogueTypeOK /\ CatalogueRequestsAreBacked /\ RowsArePriced /\ SessionChargesHistory
  BY DEF BuyInv
<1>1. CatalogueRequestsAreBacked'
  <2> SUFFICES ASSUME NEW k \in Handlers PROVE CatalogueIsBacked(req[k])'
    BY DEF CatalogueRequestsAreBacked
  <2>1. CASE req'[k] = req[k]
    <3> DEFINE q == req[k]
    <3>1. q \in CatalogueRequest \cup {Idle} /\ CatalogueIsBacked(q)
      BY <1>t DEF CatalogueTypeOK, CatalogueRequestsAreBacked
    <3>2. PICK s : s = q OBVIOUS
    <3>3. s \in CatalogueRequest \cup {Idle} /\ CatalogueIsBacked(s) BY <3>1, <3>2
    <3>4. CatalogueIsBacked(s)' BY <1>t, <3>3, BackingStays
    <3>q. QED BY <2>1, <3>2, <3>4
  <2>2. CASE CatalogueIsBacked(req[k])' BY <2>2
  <2>q. QED BY <2>1, <2>2
<1>2. RowsArePriced'
  <2> SUFFICES ASSUME NEW r \in Live(pricing)', pricing'[r].stripePriceId # None
               PROVE  Takes(pricing[r].stripePriceId, pricing[r].amount)'
    BY DEF RowsArePriced
  <2>1. r \in Rows /\ pricing'[r] \notin {None, Gone} /\ pricing'[r] \in Pricing
    BY DEF Live, CatalogueTypeOK
  <2>2. CASE pricing'[r] = pricing[r]
    <3>1. r \in Live(pricing) /\ pricing[r] \in Pricing
      BY <1>t, <2>1, <2>2 DEF Live, CatalogueTypeOK
    <3>2. Takes(pricing[r].stripePriceId, pricing[r].amount)
      BY <1>t, <2>2, <3>1 DEF RowsArePriced
    <3>3. PICK s, m : s = pricing[r].stripePriceId /\ m = pricing[r].amount OBVIOUS
    <3>4. m \in Amounts /\ Takes(s, m) BY <3>1, <3>2, <3>3 DEF Pricing
    <3>5. Takes(s, m)' BY <3>4, TakesStays
    <3>q. QED BY <2>2, <3>3, <3>5
  <2>q. QED BY <2>1, <2>2
<1>3. SessionChargesHistory'
  <2> SUFFICES ASSUME NEW i \in Histories, i \notin mixed', histories'[i] # None,
                      histories'[i].session # None
               PROVE  atStripe'[histories'[i].session] = histories'[i].amount
    BY DEF SessionChargesHistory
  <2>1. CASE histories'[i] = histories[i] /\ i \notin mixed
    <3>1. /\ histories[i] \in BoughtHistory /\ histories[i].session \in StripePrices
          /\ histories[i].amount \in Amounts
      BY <1>t, <2>1 DEF CatalogueTypeOK, BoughtHistory
    <3>2. Takes(histories[i].session, histories[i].amount)
      BY <1>t, <2>1, <3>1 DEF SessionChargesHistory, Takes
    <3>q. QED BY <2>1, <3>1, <3>2, CatalogueNone DEF Takes, CatalogueGrows
  <2>2. CASE Takes(histories[i].session, histories[i].amount)' BY <2>2 DEF Takes
  <2>q. QED BY <2>1, <2>2
<1>q. QED BY <1>1, <1>2, <1>3 DEF BuyInv

(* What inserting and deleting do to the table of prices.                  *)
LEMMA RowIsInserted ==
  ASSUME CatalogueTypeOK, NEW p \in Plans, NEW amount \in Amounts, InsertRow(p, amount)
  PROVE  \E r \in Rows : /\ pricing[r] = None
                         /\ pricing'[r] = NewRow(p, amount)
                         /\ \A s \in Rows \ {r} : pricing'[s] = pricing[s]
                         /\ pricing' \in [Rows -> Pricing \cup {None, Gone}]
                         /\ NewRow(p, amount) \in Pricing
  BY DEF InsertRow, IsNext, NewRow, Pricing, CatalogueTypeOK

LEMMA RowsAreDeleted ==
  ASSUME CatalogueTypeOK, NEW p, pricing' = WithoutRowsOf(p)
  PROVE  /\ pricing' \in [Rows -> Pricing \cup {None, Gone}]
         /\ \A r \in Rows : \/ pricing'[r] = pricing[r] /\ r \notin RowsOf(p)
                            \/ pricing'[r] = Gone /\ r \in RowsOf(p) /\ pricing[r] # None
  BY DEF WithoutRowsOf, CatalogueTypeOK, RowsOf, Live

(* Rows are inserted, without a price at Stripe, and deleted.              *)
RowsComeAndGo ==
    \A r \in Rows :
        \/ pricing'[r] = pricing[r]
        \/ pricing[r] # None /\ pricing'[r] = Gone
        \/ pricing[r] = None /\ pricing'[r] \in Pricing /\ pricing'[r].stripePriceId = None

LEMMA EditingTheCatalogue ==
  ASSUME BuyInv, NEW h \in Handlers,
         \/ \E name \in PlanNames, a \in Amounts \cup {None} : CreateSubscription(h, name, a)
         \/ InsertPlan(h)
         \/ \E p \in Plans : DeleteSubscription(h, p)
         \/ DeletePlan(h)
         \/ \E p \in Plans : UpdateSubscription(h, p)
         \/ UpdatePlan(h)
         \/ DropPricing(h)
         \/ CreatePricing(h)
  PROVE  BuyInv'
<1>t. CatalogueTypeOK /\ CatalogueRequestsAreBacked /\ HistoriesAreOwed BY DEF BuyInv
<1>r. /\ req \in [Handlers -> CatalogueRequest \cup {Idle}]
      /\ req[h] \in CatalogueRequest \cup {Idle} /\ CatalogueIsBacked(req[h])
      /\ faults \in 0..MaxFaults /\ unpriced \subseteq Plans
      /\ plans \in [Plans -> PlanNames \cup {None, Gone}]
      /\ pricing \in [Rows -> Pricing \cup {None, Gone}]
  BY <1>t DEF CatalogueTypeOK, CatalogueRequestsAreBacked
<1>a. Idle.pc = "idle" BY DEF Idle
<1>i. CatalogueIsBacked(Idle)' BY <1>a DEF CatalogueIsBacked, Buying, Charging
<1>n. None \notin Pricing /\ Gone \notin Pricing /\ None \notin Amounts BY CatalogueNone
(* Rows are inserted without a price and deleted, and no session is made.  *)
<1>e. ASSUME req' \in [Handlers -> CatalogueRequest \cup {Idle}], UNCHANGED faults,
             \A k \in Handlers \ {h} : req'[k] = req[k], CatalogueIsBacked(req[h])',
             req'[h].pc \notin Charging, UNCHANGED <<atStripe, purchases>>,
             unpriced' \subseteq Plans,
             plans' \in [Plans -> PlanNames \cup {None, Gone}],
             pricing' \in [Rows -> Pricing \cup {None, Gone}], RowsComeAndGo
      PROVE  BuyInv'
  <2>0. UNCHANGED <<histories, overtaken, mixed>> BY <1>e DEF purchases
  <2>1. CatalogueTypeOK' BY <1>t, <1>e, <2>0 DEF CatalogueTypeOK
  <2>2. CatalogueGrows
    <3>1. ASSUME NEW r \in Rows, pricing[r] # None
          PROVE  /\ pricing'[r] # None
                 /\ pricing'[r] # Gone => /\ pricing[r] # Gone
                                          /\ pricing'[r].amount = pricing[r].amount
                                          /\ pricing'[r].plan = pricing[r].plan
      BY <1>e, <3>1, BackendAssumption DEF RowsComeAndGo
    <3>q. QED BY <1>e, <2>0, <3>1 DEF CatalogueGrows
  <2>3. \A k \in Handlers : req'[k] = req[k] \/ CatalogueIsBacked(req[k])' BY <1>e
  <2>4. \A r \in Rows :
            \/ pricing'[r] \in {None, Gone} \/ pricing'[r] = pricing[r]
            \/ pricing'[r].stripePriceId = None
            \/ Takes(pricing[r].stripePriceId, pricing[r].amount)'
    BY <1>e DEF RowsComeAndGo
  <2>5. \A i \in Histories :
            \/ histories'[i] = None \/ i \in mixed'
            \/ histories'[i] = histories[i] /\ i \notin mixed
            \/ histories'[i].session = None
            \/ Takes(histories[i].session, histories[i].amount)'
    BY <2>0
  <2>6. Owes(h)' BY <1>e DEF Owes
  <2>7. HistoriesAreOwed' BY <1>t, <1>e, <2>0, <2>6, OwedStays
  <2>q. QED BY <2>1, <2>2, <2>3, <2>4, <2>5, <2>7, BuyMove
<1>u. UNCHANGED pricing => RowsComeAndGo BY DEF RowsComeAndGo
(* A request that arrives.                                                 *)
<1>b. ASSUME NEW r \in CatalogueRequest, Begin(h, r), UNCHANGED planCatalogue,
             CatalogueIsBacked(r)', r.pc \notin Charging
      PROVE  BuyInv'
  <2>1. /\ req'[h] = r /\ \A k \in Handlers \ {h} : req'[k] = req[k]
        /\ req' \in [Handlers -> CatalogueRequest \cup {Idle}] /\ faults' = faults
    BY <1>r, <1>b, BeginChange
  <2>2. CatalogueIsBacked(req[h])' BY <1>b, <2>1
  <2>3. UNCHANGED <<plans, pricing, unpriced, atStripe, purchases>>
    BY <1>b DEF planCatalogue, catalogue
  <2>q. QED BY <1>b, <1>r, <1>e, <1>u, <2>1, <2>2, <2>3
(* A request that is answered.                                             *)
<1>d. ASSUME Done(h)
      PROVE  /\ \A k \in Handlers \ {h} : req'[k] = req[k]
             /\ req' \in [Handlers -> CatalogueRequest \cup {Idle}] /\ faults' = faults
             /\ CatalogueIsBacked(req[h])' /\ req'[h].pc \notin Charging
  <2>1. /\ req'[h] = Idle /\ \A k \in Handlers \ {h} : req'[k] = req[k]
        /\ req' \in [Handlers -> CatalogueRequest \cup {Idle}] /\ faults' = faults
    BY <1>r, <1>d, DoneChange
  <2>q. QED BY <1>a, <1>i, <2>1 DEF Charging
<1>1. ASSUME NEW name \in PlanNames, NEW a \in Amounts \cup {None}, CreateSubscription(h, name, a)
      PROVE  BuyInv'
  <2> DEFINE r == [pc |-> "plan.insert", name |-> name, amount |-> a]
  <2>1. r \in CatalogueRequest /\ r.pc = "plan.insert" BY DEF CatalogueRequest
  <2>2. Begin(h, r) /\ UNCHANGED planCatalogue BY <1>1 DEF CreateSubscription
  <2> HIDE DEF r
  <2>3. CatalogueIsBacked(r)' /\ r.pc \notin Charging
    BY <2>1 DEF CatalogueIsBacked, Buying, Charging
  <2>q. QED BY <1>b, <2>1, <2>2, <2>3
<1>2. CASE InsertPlan(h)
  <2>1. req[h] \in Inserting BY <1>2, <1>r, <1>a, CatalogueKinds DEF InsertPlan, At
  <2>2. Done(h) /\ UNCHANGED <<atStripe, purchases>> BY <1>2 DEF InsertPlan
  <2>3. CASE UNCHANGED catalogue
    <3>1. UNCHANGED <<plans, pricing, unpriced>> BY <2>3 DEF catalogue
    <3>q. QED BY <1>d, <1>e, <1>r, <1>u, <2>2, <3>1
  <2>4. ASSUME NEW p \in Plans, plans' = [plans EXCEPT ![p] = req[h].name],
               IF req[h].amount = None THEN unpriced' = unpriced \cup {p} /\ UNCHANGED pricing
                                       ELSE InsertRow(p, req[h].amount) /\ UNCHANGED unpriced
        PROVE  BuyInv'
    <3>1. plans' \in [Plans -> PlanNames \cup {None, Gone}] BY <1>r, <2>1, <2>4 DEF Inserting
    <3>2. CASE req[h].amount = None
      <4>1. unpriced' = unpriced \cup {p} /\ UNCHANGED pricing BY <2>4, <3>2
      <4>2. unpriced' \subseteq Plans BY <1>r, <4>1
      <4>3. pricing' \in [Rows -> Pricing \cup {None, Gone}] BY <1>r, <4>1
      <4>q. QED BY <1>d, <1>e, <1>u, <2>2, <3>1, <4>1, <4>2, <4>3
    <3>3. CASE req[h].amount # None
      <4>1. InsertRow(p, req[h].amount) /\ UNCHANGED unpriced BY <2>4, <3>3
      <4>2. req[h].amount \in Amounts BY <2>1, <3>3 DEF Inserting
      <4>3. PICK r \in Rows : /\ pricing[r] = None
                              /\ pricing'[r] = NewRow(p, req[h].amount)
                              /\ \A s \in Rows \ {r} : pricing'[s] = pricing[s]
                              /\ pricing' \in [Rows -> Pricing \cup {None, Gone}]
                              /\ NewRow(p, req[h].amount) \in Pricing
        BY <1>t, <4>1, <4>2, RowIsInserted
      <4>4. RowsComeAndGo BY <4>3 DEF RowsComeAndGo, NewRow
      <4>q. QED BY <1>d, <1>e, <1>r, <2>2, <3>1, <4>1, <4>3, <4>4
    <3>q. QED BY <3>2, <3>3
  <2>q. QED BY <1>2, <2>3, <2>4 DEF InsertPlan
<1>3. ASSUME NEW p \in Plans, DeleteSubscription(h, p) PROVE BuyInv'
  <2> DEFINE r == [pc |-> "plan.delete", plan |-> p]
  <2>1. r \in CatalogueRequest /\ r.pc = "plan.delete" BY DEF CatalogueRequest
  <2>2. Begin(h, r) /\ UNCHANGED planCatalogue BY <1>3 DEF DeleteSubscription
  <2> HIDE DEF r
  <2>3. CatalogueIsBacked(r)' /\ r.pc \notin Charging
    BY <2>1 DEF CatalogueIsBacked, Buying, Charging
  <2>q. QED BY <1>b, <2>1, <2>2, <2>3
<1>4. CASE DeletePlan(h)
  <2>1. /\ plans' = [plans EXCEPT ![req[h].plan] = Gone]
        /\ pricing' = WithoutRowsOf(req[h].plan)
        /\ Done(h) /\ UNCHANGED <<unpriced, atStripe, purchases>>
    BY <1>4 DEF DeletePlan
  <2>2. plans' \in [Plans -> PlanNames \cup {None, Gone}] BY <1>r, <2>1
  <2>3. /\ pricing' \in [Rows -> Pricing \cup {None, Gone}]
        /\ RowsComeAndGo
    BY <1>t, <2>1, RowsAreDeleted DEF RowsComeAndGo
  <2>q. QED BY <1>d, <1>e, <1>r, <2>1, <2>2, <2>3
<1>5. ASSUME NEW p \in Plans, UpdateSubscription(h, p) PROVE BuyInv'
  <2>1. PICK amount \in Amounts \cup {None} :
            Begin(h, [pc |-> "plan.update", plan |-> p, amount |-> amount])
    BY <1>5 DEF UpdateSubscription
  <2> DEFINE r == [pc |-> "plan.update", plan |-> p, amount |-> amount]
  <2>2. r \in CatalogueRequest /\ r.pc = "plan.update" BY DEF CatalogueRequest
  <2>3. Begin(h, r) /\ UNCHANGED planCatalogue BY <1>5, <2>1 DEF UpdateSubscription
  <2> HIDE DEF r
  <2>4. CatalogueIsBacked(r)' /\ r.pc \notin Charging
    BY <2>2 DEF CatalogueIsBacked, Buying, Charging
  <2>q. QED BY <1>b, <2>2, <2>3, <2>4
<1>6. CASE UpdatePlan(h)
  <2>1. req[h] \in Updating /\ req[h].pc = "plan.update"
    BY <1>6, <1>r, <1>a, CatalogueKinds DEF UpdatePlan, At
  <2>2. /\ UNCHANGED <<pricing, unpriced, atStripe, purchases>>
        /\ plans' \in [Plans -> PlanNames \cup {None, Gone}]
    BY <1>6, <1>r DEF UpdatePlan
  <2>3. CASE Done(h) BY <1>d, <1>e, <1>r, <1>u, <2>2, <2>3
  <2>4. CASE req[h].amount # None /\ Step(h, "plan.drop")
    <3> DEFINE r == [req[h] EXCEPT !.pc = "plan.drop"]
    <3>1. r \in Updating /\ r.pc = "plan.drop" /\ r.amount \in Amounts
      BY <2>1, <2>4 DEF Updating
    <3>2. /\ req'[h] = r /\ \A k \in Handlers \ {h} : req'[k] = req[k]
          /\ req' \in [Handlers -> CatalogueRequest \cup {Idle}] /\ faults' = faults
      BY <1>r, <2>4, <3>1, CatalogueKindsAreRequests, StepChange DEF r
    <3> HIDE DEF r
    <3>3. CatalogueIsBacked(req[h])' /\ req'[h].pc \notin Charging
      BY <3>1, <3>2 DEF CatalogueIsBacked, Buying, Charging
    <3>q. QED BY <1>e, <1>r, <1>u, <2>2, <3>2, <3>3
  <2>q. QED BY <1>6, <2>3, <2>4 DEF UpdatePlan
<1>7. CASE DropPricing(h)
  <2>1. /\ req[h] \in Updating /\ req[h].pc = "plan.drop"
        /\ pricing' = WithoutRowsOf(req[h].plan)
        /\ Step(h, "plan.prices") /\ UNCHANGED <<plans, unpriced, atStripe, purchases>>
    BY <1>7, <1>r, <1>a, CatalogueKinds DEF DropPricing, At
  <2> DEFINE r == [req[h] EXCEPT !.pc = "plan.prices"]
  <2>2. r \in Updating /\ r.pc = "plan.prices" /\ r.amount = req[h].amount
    BY <2>1 DEF Updating
  <2>3. /\ req'[h] = r /\ \A k \in Handlers \ {h} : req'[k] = req[k]
        /\ req' \in [Handlers -> CatalogueRequest \cup {Idle}] /\ faults' = faults
    <3>1. [req[h] EXCEPT !.pc = "plan.prices"] \in CatalogueRequest
      BY <2>2, CatalogueKindsAreRequests
    <3> HIDE DEF r
    <3>2. /\ req'[h] = [req[h] EXCEPT !.pc = "plan.prices"]
          /\ \A k \in Handlers \ {h} : req'[k] = req[k]
          /\ req' \in [Handlers -> CatalogueRequest \cup {Idle}] /\ faults' = faults
      BY <1>r, <2>1, <3>1, StepChange
    <3>q. QED BY <3>2 DEF r
  <2> HIDE DEF r
  <2>4. r.amount \in Amounts BY <1>r, <2>1, <2>2 DEF CatalogueIsBacked
  <2>5. CatalogueIsBacked(req[h])' /\ req'[h].pc \notin Charging
    BY <2>2, <2>3, <2>4 DEF CatalogueIsBacked, Buying, Charging
  <2>6. /\ pricing' \in [Rows -> Pricing \cup {None, Gone}]
        /\ RowsComeAndGo
    BY <1>t, <2>1, RowsAreDeleted DEF RowsComeAndGo
  <2>q. QED BY <1>e, <1>r, <2>1, <2>3, <2>5, <2>6
<1>8. CASE CreatePricing(h)
  <2>1. /\ req[h] \in Updating /\ req[h].pc = "plan.prices"
        /\ Done(h) /\ UNCHANGED <<plans, atStripe, purchases>>
    BY <1>8, <1>r, <1>a, CatalogueKinds DEF CreatePricing, At
  <2>2. req[h].amount \in Amounts /\ req[h].plan \in Plans
    BY <1>r, <2>1 DEF CatalogueIsBacked, Updating
  <2>p. unpriced' \subseteq Plans BY <1>8, <1>r, <2>2 DEF CreatePricing
  <2>3. CASE UNCHANGED pricing BY <1>d, <1>e, <1>r, <1>u, <2>1, <2>3, <2>p
  <2>4. CASE InsertRow(req[h].plan, req[h].amount)
    <3>1. PICK r \in Rows : /\ pricing[r] = None
                            /\ pricing'[r] = NewRow(req[h].plan, req[h].amount)
                            /\ \A s \in Rows \ {r} : pricing'[s] = pricing[s]
                            /\ pricing' \in [Rows -> Pricing \cup {None, Gone}]
                            /\ NewRow(req[h].plan, req[h].amount) \in Pricing
      BY <1>t, <2>2, <2>4, RowIsInserted
    <3>2. RowsComeAndGo BY <3>1 DEF RowsComeAndGo, NewRow
    <3>q. QED BY <1>d, <1>e, <1>r, <2>1, <2>p, <3>1, <3>2
  <2>q. QED BY <1>8, <2>3, <2>4 DEF CreatePricing
<1>q. QED BY <1>1, <1>2, <1>3, <1>4, <1>5, <1>6, <1>7, <1>8

LEMMA BuyingFromTheCatalogue ==
  ASSUME BuyInv, NEW h \in Handlers,
         \/ \E r \in Rows : BuyPlan(h, r) \/ UpgradePlan(h, r)
         \/ CreateHistory(h)
         \/ FindHistory(h)
         \/ RewriteHistory(h)
         \/ GetPrice(h)
         \/ CreatePrice(h)
         \/ StorePrice(h)
         \/ CreateSubscriptionCheckout(h)
         \/ RecordSession(h)
  PROVE  BuyInv'
<1>t. CatalogueTypeOK /\ CatalogueRequestsAreBacked /\ HistoriesAreOwed /\ RowsArePriced
  BY DEF BuyInv
<1>r. /\ req \in [Handlers -> CatalogueRequest \cup {Idle}]
      /\ req[h] \in CatalogueRequest \cup {Idle} /\ CatalogueIsBacked(req[h]) /\ Owes(h)
      /\ faults \in 0..MaxFaults
      /\ pricing \in [Rows -> Pricing \cup {None, Gone}]
      /\ atStripe \in [StripePrices -> Amounts \cup {None}]
      /\ histories \in [Histories -> BoughtHistory \cup {None}]
      /\ overtaken \subseteq Handlers /\ mixed \subseteq Histories
  BY <1>t DEF CatalogueTypeOK, CatalogueRequestsAreBacked, HistoriesAreOwed
<1>a. Idle.pc = "idle" BY DEF Idle
<1>i. CatalogueIsBacked(Idle)' BY <1>a DEF CatalogueIsBacked, Buying, Charging
<1>n. /\ None \notin Pricing /\ Gone \notin Pricing /\ None \notin Amounts
      /\ None \notin StripePrices /\ None \notin Histories /\ None \notin BoughtHistory
  BY CatalogueNone
<1>b. Charging \subseteq Buying BY DEF Buying
(* The histories stay as they are.                                         *)
<1>w. ASSUME UNCHANGED <<plans, unpriced, purchases>>,
             \A k \in Handlers \ {h} : req'[k] = req[k], Owes(h)',
             req' \in [Handlers -> CatalogueRequest \cup {Idle}], faults' = faults,
             pricing' \in [Rows -> Pricing \cup {None, Gone}],
             atStripe' \in [StripePrices -> Amounts \cup {None}],
             CatalogueIsBacked(req[h])',
             \A s \in StripePrices : atStripe[s] # None => atStripe'[s] = atStripe[s],
             \A r \in Rows : pricing[r] # None =>
                /\ pricing'[r] # None
                /\ pricing'[r] # Gone => /\ pricing[r] # Gone
                                         /\ pricing'[r].amount = pricing[r].amount
                                         /\ pricing'[r].plan = pricing[r].plan,
             \A r \in Rows :
                \/ pricing'[r] = pricing[r]
                \/ Takes(pricing[r].stripePriceId, pricing[r].amount)'
      PROVE  BuyInv'
  <2>1. UNCHANGED <<histories, overtaken, mixed>> BY <1>w DEF purchases
  <2>2. CatalogueTypeOK' BY <1>t, <1>w, <2>1 DEF CatalogueTypeOK
  <2>3. CatalogueGrows BY <1>w, <2>1 DEF CatalogueGrows
  <2>4. HistoriesAreOwed' BY <1>t, <1>w, <2>1, OwedStays
  <2>5. \A k \in Handlers : req'[k] = req[k] \/ CatalogueIsBacked(req[k])' BY <1>w
  <2>6. \A r \in Rows :
            \/ pricing'[r] \in {None, Gone} \/ pricing'[r] = pricing[r]
            \/ pricing'[r].stripePriceId = None
            \/ Takes(pricing[r].stripePriceId, pricing[r].amount)'
    BY <1>w
  <2>7. \A i \in Histories :
            \/ histories'[i] = None \/ i \in mixed'
            \/ histories'[i] = histories[i] /\ i \notin mixed
            \/ histories'[i].session = None
            \/ Takes(histories[i].session, histories[i].amount)'
    BY <2>1
  <2>q. QED BY <2>2, <2>3, <2>4, <2>5, <2>6, <2>7, BuyMove
<1>x. ASSUME UNCHANGED planCatalogue, \A k \in Handlers \ {h} : req'[k] = req[k], Owes(h)',
             req' \in [Handlers -> CatalogueRequest \cup {Idle}], faults' = faults,
             CatalogueIsBacked(req[h])'
      PROVE  BuyInv'
  <2>1. UNCHANGED <<plans, unpriced, pricing, atStripe, purchases>>
    BY <1>x DEF planCatalogue, catalogue
  <2>2. \A r \in Rows : pricing[r] # None =>
                /\ pricing'[r] # None
                /\ pricing'[r] # Gone => /\ pricing[r] # Gone
                                         /\ pricing'[r].amount = pricing[r].amount
                                         /\ pricing'[r].plan = pricing[r].plan
    BY <2>1
  <2>q. QED BY <1>r, <1>w, <1>x, <2>1, <2>2
<1>1. ASSUME NEW row \in Rows, NEW pc \in {"buy.history", "upgrade.find"}, ReadPlan(h, row, pc)
      PROVE  BuyInv'
  <2> DEFINE r == [pc |-> pc, row |-> row, read |-> pricing[row], history |-> None,
                   price |-> None]
  <2>1. row \in Live(pricing) /\ pricing[row] \in Pricing /\ Begin(h, r)
        /\ UNCHANGED planCatalogue
    BY <1>1, <1>r DEF ReadPlan, Live
  <2>2. r \in BuyRequest /\ r.pc = pc /\ r.row = row /\ r.read = pricing[row]
    BY <2>1 DEF BuyRequest, Buying
  <2> HIDE DEF r
  <2>3. /\ req'[h] = r /\ \A k \in Handlers \ {h} : req'[k] = req[k]
        /\ req' \in [Handlers -> CatalogueRequest \cup {Idle}] /\ faults' = faults
    BY <1>r, <2>1, <2>2, CatalogueKindsAreRequests, BeginChange
  <2>4. UNCHANGED <<pricing, atStripe>> BY <2>1 DEF planCatalogue, catalogue
  <2>5. pricing[row].stripePriceId # None =>
            Takes(pricing[row].stripePriceId, pricing[row].amount)
    BY <1>t, <2>1 DEF RowsArePriced
  <2>6. CatalogueIsBacked(req[h])'
    BY <1>n, <2>1, <2>2, <2>3, <2>4, <2>5 DEF CatalogueIsBacked, Takes, Buying, Charging
  <2>7. Owes(h)' BY <2>2, <2>3 DEF Owes, Charging
  <2>q. QED BY <1>x, <2>1, <2>3, <2>6, <2>7
<1>2. CASE FindHistory(h)
  <2>1. req[h] \in BuyRequest /\ req[h].pc = "upgrade.find"
    BY <1>2, <1>r, <1>a, CatalogueKinds DEF FindHistory, At, Buying
  <2>2. UNCHANGED planCatalogue BY <1>2 DEF FindHistory
  <2>3. UNCHANGED <<pricing, atStripe, histories>>
    BY <2>2 DEF planCatalogue, catalogue, purchases
  <2>4. CASE Done(h)
    <3>1. /\ req'[h] = Idle /\ \A k \in Handlers \ {h} : req'[k] = req[k]
          /\ req' \in [Handlers -> CatalogueRequest \cup {Idle}] /\ faults' = faults
      BY <1>r, <2>4, DoneChange
    <3>2. Owes(h)' BY <1>a, <3>1 DEF Owes, Charging
    <3>q. QED BY <1>i, <1>x, <2>2, <3>1, <3>2
  <2>5. ASSUME NEW i \in Live(histories),
               Begin(h, [req[h] EXCEPT !.pc = "upgrade.write", !.history = i])
        PROVE  BuyInv'
    <3> DEFINE r == [req[h] EXCEPT !.pc = "upgrade.write", !.history = i]
    <3>0. i \in Histories /\ histories[i] # None BY <1>r DEF Live
    <3>1. /\ r \in BuyRequest /\ r.pc = "upgrade.write" /\ r.history = i
          /\ r.read = req[h].read /\ r.row = req[h].row
      BY <2>1, <3>0 DEF BuyRequest, Buying
    <3>2. Begin(h, r) BY <2>5
    <3> HIDE DEF r
    <3>3. /\ req'[h] = r /\ \A k \in Handlers \ {h} : req'[k] = req[k]
          /\ req' \in [Handlers -> CatalogueRequest \cup {Idle}] /\ faults' = faults
      BY <1>r, <3>1, <3>2, CatalogueKindsAreRequests, BeginChange
    <3>4. CatalogueIsBacked(req[h])'
      BY <1>r, <2>1, <2>3, <3>0, <3>1, <3>3 DEF CatalogueIsBacked, Takes, Buying, Charging
    <3>5. Owes(h)' BY <3>1, <3>3 DEF Owes, Charging
    <3>q. QED BY <1>x, <2>2, <3>3, <3>4, <3>5
  <2>q. QED BY <1>2, <2>4, <2>5 DEF FindHistory
<1>3. ASSUME NEW i \in Histories, At(h, "buy.history") \/ At(h, "upgrade.write"), Charge(h, i),
             UNCHANGED <<catalogue, atStripe>>
      PROVE  BuyInv'
  <2>1. req[h] \in BuyRequest /\ req[h].pc \in {"buy.history", "upgrade.write"}
    BY <1>3, <1>r, <1>a, CatalogueKinds DEF At, Buying
  <2> DEFINE r == [req[h] EXCEPT !.history = i,
                     !.pc = IF req[h].read.stripePriceId = None THEN "buy.price" ELSE "buy.get"]
             new == [amount |-> req[h].read.amount, session |-> None]
  <2>2. /\ histories' = [histories EXCEPT ![i] = new]
        /\ mixed' = mixed \ {i}
        /\ overtaken' = {k \in Handlers \ {h} :
                k \in overtaken \/ (req[k].pc \in Charging /\ req[k].history = i)}
        /\ Begin(h, r)
    BY <1>3 DEF Charge, Write
  <2>3. /\ r \in BuyRequest /\ r.pc \in {"buy.price", "buy.get"}
        /\ r.pc = "buy.get" => req[h].read.stripePriceId # None
        /\ r.history = i /\ r.read = req[h].read /\ r.row = req[h].row
    BY <2>1 DEF BuyRequest, Buying, Charging
  <2>4. UNCHANGED <<plans, pricing, unpriced, atStripe>> BY <1>3 DEF catalogue
  <2>5. new \in BoughtHistory /\ new.amount = req[h].read.amount /\ new.session = None
    BY <2>1 DEF BuyRequest, Pricing, BoughtHistory
  <2> HIDE DEF r, new
  <2>6. /\ req'[h] = r /\ \A k \in Handlers \ {h} : req'[k] = req[k]
        /\ req' \in [Handlers -> CatalogueRequest \cup {Idle}] /\ faults' = faults
    BY <1>r, <2>2, <2>3, CatalogueKindsAreRequests, BeginChange
  <2>7. /\ histories' \in [Histories -> BoughtHistory \cup {None}] /\ histories'[i] = new
        /\ \A j \in Histories \ {i} : histories'[j] = histories[j]
    BY <1>r, <2>2, <2>5
  <2>8. CatalogueTypeOK'
    <3>1. overtaken' \subseteq Handlers /\ mixed' \subseteq Histories BY <1>r, <2>2
    <3>q. QED BY <1>t, <2>4, <2>6, <2>7, <3>1 DEF CatalogueTypeOK
  <2>9. CatalogueGrows BY <1>n, <2>4, <2>5, <2>7 DEF CatalogueGrows
  <2>10. CatalogueIsBacked(req[h])'
    BY <1>n, <1>r, <2>1, <2>3, <2>4, <2>5, <2>6, <2>7
       DEF CatalogueIsBacked, Takes, Buying, Charging
  <2>11. ASSUME NEW k \in Handlers PROVE Owes(k)'
    <3>1. CASE k = h BY <2>3, <2>5, <2>6, <2>7, <3>1 DEF Owes
    <3>2. CASE k # h /\ req[k].pc \in Charging /\ k \notin overtaken'
      <4>1. k \notin overtaken /\ req[k].history # i BY <2>2, <3>2
      <4>2. req[k].history \in Histories
        BY <1>t, <3>2 DEF CatalogueRequestsAreBacked, CatalogueIsBacked
      <4>3. histories[req[k].history].amount = req[k].read.amount
        BY <1>t, <3>2, <4>1 DEF HistoriesAreOwed, Owes
      <4>4. req'[k] = req[k] /\ histories'[req[k].history] = histories[req[k].history]
        BY <2>6, <2>7, <3>2, <4>1, <4>2
      <4>q. QED BY <4>3, <4>4 DEF Owes
    <3>3. CASE k # h /\ ~(req[k].pc \in Charging /\ k \notin overtaken')
      BY <2>6, <3>3 DEF Owes
    <3>q. QED BY <3>1, <3>2, <3>3
  <2>12. \A j \in Histories :
            \/ histories'[j] = None \/ j \in mixed'
            \/ histories'[j] = histories[j] /\ j \notin mixed
            \/ histories'[j].session = None
            \/ Takes(histories[j].session, histories[j].amount)'
    BY <2>2, <2>5, <2>7
  <2>13. HistoriesAreOwed' BY <2>11 DEF HistoriesAreOwed
  <2>q. QED BY <2>4, <2>6, <2>8, <2>9, <2>10, <2>12, <2>13, BuyMove
<1>4. CASE CreateHistory(h) BY <1>3, <1>4 DEF CreateHistory
<1>5. CASE RewriteHistory(h)
  <2>1. req[h].history \in Histories
    BY <1>5, <1>r DEF RewriteHistory, At, CatalogueIsBacked
  <2>q. QED BY <1>3, <1>5, <2>1 DEF RewriteHistory
<1>6. CASE GetPrice(h)
  <2>1. req[h] \in BuyRequest /\ req[h].pc = "buy.get"
    BY <1>6, <1>r, <1>a, CatalogueKinds DEF GetPrice, At, Buying, Charging
  <2>2. req[h].read.stripePriceId \in StripePrices /\ req[h].read.stripePriceId # None
    BY <1>r, <2>1 DEF CatalogueIsBacked, BuyRequest, Pricing
  <2> DEFINE p == req[h].read.stripePriceId
             r == [req[h] EXCEPT !.pc = "buy.session", !.price = p]
             r2 == [req[h] EXCEPT !.pc = "buy.price"]
  <2>3. /\ UNCHANGED planCatalogue
        /\ UNCHANGED <<plans, pricing, atStripe, histories, overtaken>>
    BY <1>6 DEF GetPrice, planCatalogue, catalogue, purchases
  <2>4. /\ r \in BuyRequest /\ r.pc = "buy.session" /\ r.price = p
        /\ r.history = req[h].history /\ r.read = req[h].read /\ r.row = req[h].row
    BY <2>1, <2>2 DEF BuyRequest, Buying, Charging
  <2>5. /\ r2 \in BuyRequest /\ r2.pc = "buy.price"
        /\ r2.history = req[h].history /\ r2.read = req[h].read /\ r2.row = req[h].row
    BY <2>1 DEF BuyRequest, Buying, Charging
  <2>6. /\ req'[h] = r \/ req'[h] = r2
        /\ \A k \in Handlers \ {h} : req'[k] = req[k]
        /\ req' \in [Handlers -> CatalogueRequest \cup {Idle}] /\ faults' = faults
    <3>1. ASSUME Begin(h, r)
          PROVE  /\ req'[h] = r /\ \A k \in Handlers \ {h} : req'[k] = req[k]
                 /\ req' \in [Handlers -> CatalogueRequest \cup {Idle}] /\ faults' = faults
      <4> HIDE DEF r
      <4>q. QED BY <1>r, <2>4, <3>1, CatalogueKindsAreRequests, BeginChange
    <3>2. ASSUME Step(h, "buy.price")
          PROVE  /\ req'[h] = r2 /\ \A k \in Handlers \ {h} : req'[k] = req[k]
                 /\ req' \in [Handlers -> CatalogueRequest \cup {Idle}] /\ faults' = faults
      <4>1. r2 \in CatalogueRequest BY <2>5, CatalogueKindsAreRequests
      <4> HIDE DEF r
      <4>q. QED BY <1>r, <3>2, <4>1, StepChange DEF r2
    <3>3. Begin(h, r) \/ Step(h, "buy.price") BY <1>6 DEF GetPrice
    <3> HIDE DEF r, r2
    <3>q. QED BY <3>1, <3>2, <3>3
  <2> HIDE DEF r, r2
  <2>7. CatalogueIsBacked(req[h])'
    <3>1. CASE req'[h] = r
      BY <1>r, <2>1, <2>2, <2>3, <2>4, <3>1 DEF CatalogueIsBacked, Takes, Buying, Charging
    <3>2. CASE req'[h] = r2
      BY <1>r, <2>1, <2>3, <2>5, <3>2 DEF CatalogueIsBacked, Takes, Buying, Charging
    <3>q. QED BY <2>6, <3>1, <3>2
  <2>8. Owes(h)' BY <1>r, <2>1, <2>3, <2>4, <2>5, <2>6 DEF Owes, Charging
  <2>q. QED BY <1>x, <2>3, <2>6, <2>7, <2>8
<1>7. CASE CreatePrice(h)
  <2>1. req[h] \in BuyRequest /\ req[h].pc = "buy.price"
    BY <1>7, <1>r, <1>a, CatalogueKinds DEF CreatePrice, At, Buying, Charging
  <2>2. PICK s \in StripePrices :
            /\ atStripe[s] = None
            /\ atStripe' = [atStripe EXCEPT ![s] = req[h].read.amount]
            /\ Begin(h, [req[h] EXCEPT !.pc = "buy.store", !.price = s])
    BY <1>7 DEF CreatePrice, IsNext
  <2> DEFINE r == [req[h] EXCEPT !.pc = "buy.store", !.price = s]
  <2>3. /\ r \in BuyRequest /\ r.pc = "buy.store" /\ r.price = s
        /\ r.history = req[h].history /\ r.read = req[h].read /\ r.row = req[h].row
    BY <2>1 DEF BuyRequest, Buying, Charging
  <2>4. Begin(h, r) /\ UNCHANGED <<plans, pricing, unpriced, purchases>>
    BY <1>7, <2>2 DEF CreatePrice, catalogue
  <2>0. UNCHANGED <<histories, overtaken>> BY <2>4 DEF purchases
  <2> HIDE DEF r
  <2>5. /\ req'[h] = r /\ \A k \in Handlers \ {h} : req'[k] = req[k]
        /\ req' \in [Handlers -> CatalogueRequest \cup {Idle}] /\ faults' = faults
    BY <1>r, <2>3, <2>4, CatalogueKindsAreRequests, BeginChange
  <2>6. req[h].read \in Pricing /\ req[h].read.amount \in Amounts BY <2>1 DEF BuyRequest, Pricing
  <2>7. /\ atStripe' \in [StripePrices -> Amounts \cup {None}]
        /\ atStripe'[s] = req[h].read.amount
        /\ \A u \in StripePrices \ {s} : atStripe'[u] = atStripe[u]
    BY <1>r, <2>2, <2>6
  <2>8. \A u \in StripePrices : atStripe[u] # None => atStripe'[u] = atStripe[u]
    BY <2>2, <2>7
  <2>9. Takes(req[h].price, req[h].read.amount)' BY <2>3, <2>5, <2>7 DEF Takes
  <2>10. r.read.stripePriceId # None =>
            /\ r.read.stripePriceId \in StripePrices
            /\ atStripe'[r.read.stripePriceId] = r.read.amount
    BY <1>n, <1>r, <2>1, <2>3, <2>6, <2>8 DEF CatalogueIsBacked, Takes, Buying, Charging
  <2>11. CatalogueIsBacked(req[h])'
    BY <1>r, <2>0, <2>1, <2>3, <2>4, <2>5, <2>9, <2>10
       DEF CatalogueIsBacked, Takes, Buying, Charging
  <2>12. Owes(h)' BY <1>r, <2>0, <2>1, <2>3, <2>5 DEF Owes, Charging
  <2>13. \A q \in Rows : pricing[q] # None =>
                /\ pricing'[q] # None
                /\ pricing'[q] # Gone => /\ pricing[q] # Gone
                                         /\ pricing'[q].amount = pricing[q].amount
                                         /\ pricing'[q].plan = pricing[q].plan
    BY <2>4
  <2>q. QED BY <1>r, <1>w, <2>4, <2>5, <2>7, <2>8, <2>11, <2>12, <2>13
<1>8. CASE StorePrice(h)
  <2>1. req[h] \in BuyRequest /\ req[h].pc = "buy.store"
    BY <1>8, <1>r, <1>a, CatalogueKinds DEF StorePrice, At, Buying, Charging
  <2>2. /\ UNCHANGED <<plans, unpriced, atStripe, purchases>>
        /\ UNCHANGED <<histories, overtaken>>
    BY <1>8 DEF StorePrice, purchases
  <2>3. /\ req[h].price \in StripePrices /\ req[h].row \in Rows
        /\ Takes(req[h].price, req[h].read.amount)
        /\ pricing[req[h].row] # Gone => pricing[req[h].row].amount = req[h].read.amount
    BY <1>b, <1>r, <2>1 DEF CatalogueIsBacked, Takes, BuyRequest, Charging
  <2>4. CASE req[h].row \in Live(pricing)
    <3>0. PICK row \in Rows : row = req[h].row BY <2>3
    <3> DEFINE new == [pricing[row] EXCEPT !.stripePriceId = req[h].price]
               r == [req[h] EXCEPT !.pc = "buy.session"]
    <3>1. pricing[row] \in Pricing /\ pricing[row].amount = req[h].read.amount
      BY <1>r, <2>3, <2>4, <3>0 DEF Live
    <3>2. /\ new \in Pricing /\ new.stripePriceId = req[h].price
          /\ new.amount = req[h].read.amount /\ new.plan = pricing[row].plan
      BY <2>3, <3>1 DEF Pricing
    <3>3. pricing' = [pricing EXCEPT ![row] = new] /\ Step(h, "buy.session")
      BY <1>8, <2>4, <3>0 DEF StorePrice
    <3>4. /\ r \in BuyRequest /\ r.pc = "buy.session" /\ r.price = req[h].price
          /\ r.history = req[h].history /\ r.read = req[h].read /\ r.row = row
      BY <2>1, <3>0 DEF BuyRequest, Buying, Charging
    <3>5. /\ req'[h] = r /\ \A k \in Handlers \ {h} : req'[k] = req[k]
          /\ req' \in [Handlers -> CatalogueRequest \cup {Idle}] /\ faults' = faults
      <4>1. r \in CatalogueRequest BY <3>4, CatalogueKindsAreRequests
      <4> HIDE DEF new
      <4>q. QED BY <1>r, <3>3, <4>1, StepChange DEF r
    <3> HIDE DEF r, new
    <3>6. /\ pricing' \in [Rows -> Pricing \cup {None, Gone}] /\ pricing'[row] = new
          /\ \A s \in Rows \ {row} : pricing'[s] = pricing[s]
      BY <1>r, <2>3, <3>2, <3>3
    <3>7. CatalogueIsBacked(req[h])'
      BY <1>n, <1>r, <2>1, <2>2, <3>2, <3>4, <3>5, <3>6
         DEF CatalogueIsBacked, Takes, Buying, Charging
    <3>8. Takes(pricing[row].stripePriceId, pricing[row].amount)'
      BY <2>2, <2>3, <3>2, <3>6 DEF Takes
    <3>9. Owes(h)' BY <1>r, <2>1, <2>2, <3>4, <3>5 DEF Owes, Charging
    <3>10. \A q \in Rows : pricing[q] # None =>
                /\ pricing'[q] # None
                /\ pricing'[q] # Gone => /\ pricing[q] # Gone
                                         /\ pricing'[q].amount = pricing[q].amount
                                         /\ pricing'[q].plan = pricing[q].plan
      BY <1>n, <2>4, <3>0, <3>1, <3>2, <3>6 DEF Live
    <3>11. atStripe' = atStripe BY <2>2
    <3>q. QED BY <1>r, <1>w, <2>2, <3>5, <3>6, <3>7, <3>8, <3>9, <3>10, <3>11
  <2>5. CASE req[h].row \notin Live(pricing)
    <3>1. Done(h) /\ UNCHANGED pricing BY <1>8, <2>5 DEF StorePrice
    <3>2. /\ req'[h] = Idle /\ \A k \in Handlers \ {h} : req'[k] = req[k]
          /\ req' \in [Handlers -> CatalogueRequest \cup {Idle}] /\ faults' = faults
      BY <1>r, <3>1, DoneChange
    <3>3. UNCHANGED planCatalogue BY <2>2, <3>1 DEF planCatalogue, catalogue
    <3>4. Owes(h)' BY <1>a, <3>2 DEF Owes, Charging
    <3>q. QED BY <1>i, <1>x, <3>2, <3>3, <3>4
  <2>q. QED BY <2>4, <2>5
<1>9. CASE CreateSubscriptionCheckout(h)
  <2>1. req[h] \in BuyRequest /\ req[h].pc = "buy.session"
    BY <1>9, <1>r, <1>a, CatalogueKinds DEF CreateSubscriptionCheckout, At, Buying, Charging
  <2> DEFINE r == [req[h] EXCEPT !.pc = "buy.record"]
  <2>2. /\ UNCHANGED planCatalogue /\ Step(h, "buy.record")
        /\ UNCHANGED <<pricing, atStripe, histories, overtaken>>
    BY <1>9 DEF CreateSubscriptionCheckout, planCatalogue, catalogue, purchases
  <2>3. /\ r \in BuyRequest /\ r.pc = "buy.record" /\ r.price = req[h].price
        /\ r.history = req[h].history /\ r.read = req[h].read /\ r.row = req[h].row
    BY <2>1 DEF BuyRequest, Buying, Charging
  <2>4. /\ req'[h] = r /\ \A k \in Handlers \ {h} : req'[k] = req[k]
        /\ req' \in [Handlers -> CatalogueRequest \cup {Idle}] /\ faults' = faults
    <3>1. r \in CatalogueRequest BY <2>3, CatalogueKindsAreRequests
    <3>q. QED BY <1>r, <2>2, <3>1, StepChange DEF r
  <2> HIDE DEF r
  <2>5. CatalogueIsBacked(req[h])'
    BY <1>r, <2>1, <2>2, <2>3, <2>4 DEF CatalogueIsBacked, Takes, Buying, Charging
  <2>6. Owes(h)' BY <1>r, <2>1, <2>2, <2>3, <2>4 DEF Owes, Charging
  <2>q. QED BY <1>x, <2>2, <2>4, <2>5, <2>6
<1>10. CASE RecordSession(h)
  <2>1. req[h] \in BuyRequest /\ req[h].pc = "buy.record"
    BY <1>10, <1>r, <1>a, CatalogueKinds DEF RecordSession, At, Buying, Charging
  <2>0. PICK i : i = req[h].history OBVIOUS
  <2> DEFINE new == [histories[i] EXCEPT !.session = req[h].price]
  <2>2. /\ i \in Histories /\ histories[i] \in BoughtHistory
        /\ h \notin overtaken => histories[i].amount = req[h].read.amount
        /\ Takes(req[h].price, req[h].read.amount)
    BY <1>r, <2>0, <2>1 DEF CatalogueIsBacked, Owes, Charging
  <2>3. /\ new \in BoughtHistory /\ new.session = req[h].price
        /\ new.amount = histories[i].amount
    BY <2>2 DEF BoughtHistory, Takes
  <2>4. /\ histories' = [histories EXCEPT ![i] = new] /\ Done(h)
        /\ mixed' = IF h \in overtaken THEN mixed \cup {i} ELSE mixed \ {i}
        /\ overtaken' = overtaken \ {h}
        /\ UNCHANGED <<plans, pricing, unpriced, atStripe>>
    BY <1>10, <2>0 DEF RecordSession, catalogue
  <2> HIDE DEF new
  <2>5. /\ req'[h] = Idle /\ \A k \in Handlers \ {h} : req'[k] = req[k]
        /\ req' \in [Handlers -> CatalogueRequest \cup {Idle}] /\ faults' = faults
    BY <1>r, <2>4, DoneChange
  <2>6. /\ histories' \in [Histories -> BoughtHistory \cup {None}] /\ histories'[i] = new
        /\ \A j \in Histories \ {i} : histories'[j] = histories[j]
    BY <1>r, <2>2, <2>3, <2>4
  <2>7. CatalogueTypeOK'
    <3>1. overtaken' \subseteq Handlers /\ mixed' \subseteq Histories BY <1>r, <2>2, <2>4
    <3>q. QED BY <1>t, <2>4, <2>5, <2>6, <3>1 DEF CatalogueTypeOK
  <2>8. CatalogueGrows BY <1>n, <2>2, <2>3, <2>4, <2>6 DEF CatalogueGrows
  <2>9. ASSUME NEW k \in Handlers PROVE Owes(k)'
    <3>1. CASE k = h BY <1>a, <2>5, <3>1 DEF Owes, Charging
    <3>2. CASE k # h /\ req[k].pc \in Charging /\ k \notin overtaken'
      <4>1. k \notin overtaken BY <2>4, <3>2
      <4>2. req[k].history \in Histories
        BY <1>t, <3>2 DEF CatalogueRequestsAreBacked, CatalogueIsBacked
      <4>3. histories[req[k].history].amount = req[k].read.amount
        BY <1>t, <3>2, <4>1 DEF HistoriesAreOwed, Owes
      <4>4. /\ req'[k] = req[k]
            /\ histories'[req[k].history].amount = histories[req[k].history].amount
        BY <2>3, <2>5, <2>6, <3>2, <4>2
      <4>q. QED BY <4>3, <4>4 DEF Owes
    <3>3. CASE k # h /\ ~(req[k].pc \in Charging /\ k \notin overtaken')
      BY <2>5, <3>3 DEF Owes
    <3>q. QED BY <3>1, <3>2, <3>3
  <2>10. i \in mixed' \/ Takes(histories[i].session, histories[i].amount)'
    BY <2>2, <2>3, <2>4, <2>6 DEF Takes
  <2>11. \A j \in Histories :
            \/ histories'[j] = None \/ j \in mixed'
            \/ histories'[j] = histories[j] /\ j \notin mixed
            \/ histories'[j].session = None
            \/ Takes(histories[j].session, histories[j].amount)'
    BY <2>4, <2>6, <2>10
  <2>12. HistoriesAreOwed' BY <2>9 DEF HistoriesAreOwed
  <2>q. QED BY <1>i, <2>4, <2>5, <2>7, <2>8, <2>11, <2>12, BuyMove
<1>q. QED BY <1>1, <1>2, <1>4, <1>5, <1>6, <1>7, <1>8, <1>9, <1>10 DEF BuyPlan, UpgradePlan

LEMMA BuyInvariance == CatalogueSpec => []BuyInv
<1>1. BackendInit /\ CatalogueInit => BuyInv
  <2> SUFFICES ASSUME BackendInit, CatalogueInit PROVE BuyInv
    OBVIOUS
  <2>1. /\ req \in [Handlers -> CatalogueRequest \cup {Idle}]
        /\ \A k \in Handlers : req[k] = Idle
        /\ faults \in 0..MaxFaults
    BY InitialRequests
  <2>2. CatalogueTypeOK BY <2>1 DEF CatalogueInit, CatalogueTypeOK
  <2>3. CatalogueRequestsAreBacked
    BY <2>1 DEF CatalogueRequestsAreBacked, CatalogueIsBacked, Buying, Charging, Idle
  <2>5. HistoriesAreOwed BY <2>1 DEF HistoriesAreOwed, Owes, Charging, Idle
  <2>4. RowsArePriced /\ SessionChargesHistory
    BY DEF CatalogueInit, RowsArePriced, SessionChargesHistory, Live
  <2>q. QED BY <2>2, <2>3, <2>4, <2>5 DEF BuyInv
<1>2. BuyInv /\ [CatalogueNext]_<<backend, planCatalogue>> => BuyInv'
  <2>1. ASSUME BuyInv, UNCHANGED <<req, planCatalogue>>, faults' \in 0..MaxFaults
        PROVE  BuyInv'
    <3>0. UNCHANGED <<plans, pricing, unpriced, atStripe, histories, overtaken, mixed>>
      BY <2>1 DEF planCatalogue, catalogue, purchases
    <3>1. CatalogueTypeOK' BY <2>1, <3>0 DEF BuyInv, CatalogueTypeOK
    <3>2. CatalogueGrows BY <3>0 DEF CatalogueGrows
    <3>3. HistoriesAreOwed' BY <2>1, <3>0 DEF BuyInv, HistoriesAreOwed, Owes
    <3>q. QED BY <2>1, <3>0, <3>1, <3>2, <3>3, BuyMove
  <2>2. ASSUME BuyInv, UNCHANGED <<backend, planCatalogue>> PROVE BuyInv'
    BY <2>1, <2>2 DEF backend, BuyInv, CatalogueTypeOK
  <2>3. ASSUME BuyInv, Restart, UNCHANGED planCatalogue PROVE BuyInv'
    <3>1. /\ \A k \in Handlers : req'[k] = Idle
          /\ req' \in [Handlers -> CatalogueRequest \cup {Idle}]
          /\ faults' \in 0..MaxFaults
      BY <2>3, RestartChange DEF BuyInv, CatalogueTypeOK
    <3>2. UNCHANGED <<plans, pricing, unpriced, atStripe, histories, overtaken, mixed>>
      BY <2>3 DEF planCatalogue, catalogue, purchases
    <3>3. CatalogueTypeOK' BY <2>3, <3>1, <3>2 DEF BuyInv, CatalogueTypeOK
    <3>4. CatalogueGrows BY <3>2 DEF CatalogueGrows
    <3>5. Idle.pc = "idle" BY DEF Idle
    <3>6. \A k \in Handlers : CatalogueIsBacked(req[k])'
      BY <3>1, <3>5 DEF CatalogueIsBacked, Buying, Charging
    <3>7. HistoriesAreOwed' BY <3>1, <3>5 DEF HistoriesAreOwed, Owes, Charging
    <3>q. QED BY <2>3, <3>2, <3>3, <3>4, <3>6, <3>7, BuyMove
  <2>4. ASSUME BuyInv, NEW h \in Handlers, CatalogueHandler(h) PROVE BuyInv'
    BY <2>4, EditingTheCatalogue, BuyingFromTheCatalogue DEF CatalogueHandler
  <2>q. QED BY <2>2, <2>3, <2>4 DEF CatalogueNext
<1>q. QED BY <1>1, <1>2, PTL DEF CatalogueSpec

(* What a Stripe session charges is what the history says the customer     *)
(* owes, whatever the administrator does to the prices in between: buyPlan *)
(* and upgradePlan use the row they have read, and an upgrade takes the    *)
(* session off the history it rewrites.  Only who records a session after  *)
(* an upgrade rewrote its history may record one of another amount.        *)
THEOREM SessionsChargeHistories == CatalogueSpec => []SessionChargesHistory
<1>1. BuyInv => SessionChargesHistory BY DEF BuyInv
<1>q. QED BY <1>1, BuyInvariance, PTL

Writers(p) == {h \in Handlers : At(h, "plan.prices") /\ req[h].plan = p}
Offers(p) == Cardinality(RowsOf(p)) + Cardinality(Writers(p))
OfferOK(p) ==
    Offers(p) <= Cardinality(Handlers) /\ (Offers(p) = 0 => p \in unpriced \/ faults > 0)

LEMMA OffersAreOK == PricingReplaced <=> \A p \in Live(plans) : OfferOK(p)
  BY DEF PricingReplaced, OfferOK, Offers, Writers

LEMMA RowCount ==
  ASSUME NEW S \in SUBSET Rows
  PROVE  IsFiniteSet(S) /\ Cardinality(S) \in Nat
<1>1. IsFiniteSet(Rows) BY CatalogueAssumption, FS_Interval DEF Rows
<1>q. QED BY <1>1, FS_Subset, FS_CardinalityType

LEMMA OfferMove ==
  ASSUME CatalogueTypeOK, CatalogueTypeOK', OfferInv, NEW h \in Handlers,
         \A k \in Handlers \ {h} : req'[k] = req[k],
         \A p \in Plans : plans[p] # None => plans'[p] # None,
         req'[h].pc \in OnPlan => plans'[req'[h].plan] # None,
         \A s \in Rows : \/ pricing'[s] \in {None, Gone}
                         \/ pricing[s] \in Pricing /\ pricing'[s].plan = pricing[s].plan
                         \/ plans'[pricing'[s].plan] # None,
         \A p \in Live(plans)' : OfferOK(p)'
  PROVE  OfferInv'
<1>1. PricingReplaced'
  <2>1. (\A p \in Live(plans) : OfferOK(p))' BY Zenon
  <2>2. (\A p \in Live(plans) : OfferOK(p))' => PricingReplaced' BY OffersAreOK, PTL
  <2>q. QED BY <2>1, <2>2
<1>2. ASSUME NEW s \in Live(pricing)' PROVE plans'[pricing'[s].plan] # None
  <2>1. s \in Rows /\ pricing'[s] \in Pricing /\ pricing'[s] \notin {None, Gone}
    BY DEF Live, CatalogueTypeOK
  <2>2. CASE pricing[s] \in Pricing /\ pricing'[s].plan = pricing[s].plan
    <3>1. s \in Live(pricing) BY <2>1, <2>2, CatalogueNone DEF Live, CatalogueTypeOK
    <3>2. plans[pricing[s].plan] # None /\ pricing[s].plan \in Plans
      BY <2>2, <3>1 DEF OfferInv, OfPlansThatWere, Pricing
    <3>q. QED BY <2>2, <3>2
  <2>q. QED BY <2>1, <2>2
<1>3. ASSUME NEW k \in Handlers, req'[k].pc \in OnPlan PROVE plans'[req'[k].plan] # None
  <2>1. CASE k = h BY <1>3, <2>1
  <2>2. CASE k # h
    <3>1. req'[k] = req[k] /\ req[k] \in CatalogueRequest \cup {Idle}
      BY <2>2 DEF CatalogueTypeOK
    <3>2. req[k].plan \in Plans
      BY <1>3, <3>1, CatalogueKinds DEF OnPlan, Updating, DeletingPlan
    <3>q. QED BY <1>3, <3>1, <3>2 DEF OfferInv, OfPlansThatWere
  <2>q. QED BY <2>1, <2>2
<1>q. QED BY <1>1, <1>2, <1>3 DEF OfferInv, OfPlansThatWere

(* The rows of a plan, and those who will write some, stay as they are.    *)
LEMMA SameRows ==
  ASSUME CatalogueTypeOK, CatalogueTypeOK', NEW p,
         \A s \in Rows : \/ pricing'[s] = pricing[s]
                         \/ /\ pricing[s] \in Pricing /\ pricing'[s] \in Pricing
                            /\ pricing'[s].plan = pricing[s].plan
                         \/ s \notin RowsOf(p) /\ s \notin RowsOf(p)'
  PROVE  RowsOf(p)' = RowsOf(p)
  BY CatalogueNone DEF RowsOf, Live, CatalogueTypeOK

LEMMA SameWriters ==
  ASSUME NEW p, NEW h \in Handlers, \A k \in Handlers \ {h} : req'[k] = req[k],
         ~At(h, "plan.prices") \/ req[h].plan # p,
         ~At(h, "plan.prices")' \/ req'[h].plan # p
  PROVE  Writers(p)' = Writers(p)
  BY DEF Writers, At

LEMMA SameOffer ==
  ASSUME NEW p, OfferOK(p), RowsOf(p)' = RowsOf(p), Writers(p)' = Writers(p), faults' = faults,
         p \in unpriced => p \in unpriced'
  PROVE  OfferOK(p)'
  BY DEF OfferOK, Offers

(* A step that creates no plan, keeps every row with its plan, and by      *)
(* which h neither comes to write prices nor has written them.             *)
LEMMA OfferQuiet ==
  ASSUME CatalogueTypeOK, CatalogueTypeOK', OfferInv, NEW h \in Handlers,
         \A k \in Handlers \ {h} : req'[k] = req[k], faults' = faults,
         \A p \in Plans : plans[p] # None => plans'[p] # None,
         Live(plans)' \subseteq Live(plans), unpriced' = unpriced,
         ~At(h, "plan.prices"), ~At(h, "plan.prices")',
         req'[h].pc \in OnPlan => plans'[req'[h].plan] # None,
         \A s \in Rows : \/ pricing'[s] = pricing[s]
                         \/ /\ pricing[s] \in Pricing /\ pricing'[s] \in Pricing
                            /\ pricing'[s].plan = pricing[s].plan
  PROVE  OfferInv'
<1>1. ASSUME NEW p \in Live(plans)' PROVE OfferOK(p)'
  <2>1. OfferOK(p) BY OffersAreOK DEF OfferInv
  <2>2. RowsOf(p)' = RowsOf(p) BY SameRows
  <2>3. Writers(p)' = Writers(p) BY SameWriters
  <2>q. QED BY <2>1, <2>2, <2>3, SameOffer
<1>2. \A s \in Rows : \/ pricing'[s] \in {None, Gone}
                      \/ pricing[s] \in Pricing /\ pricing'[s].plan = pricing[s].plan
                      \/ plans'[pricing'[s].plan] # None
  BY DEF CatalogueTypeOK
<1>q. QED BY <1>1, <1>2, OfferMove

LEMMA OfferStep ==
  ASSUME BuyInv, CatalogueTypeOK', OfferInv, NEW h \in Handlers, CatalogueHandler(h)
  PROVE  OfferInv'
<1>t. CatalogueTypeOK /\ CatalogueRequestsAreBacked BY DEF BuyInv
<1>r. /\ req \in [Handlers -> CatalogueRequest \cup {Idle}]
      /\ req[h] \in CatalogueRequest \cup {Idle}
      /\ CatalogueIsBacked(req[h])
      /\ plans \in [Plans -> PlanNames \cup {None, Gone}]
      /\ pricing \in [Rows -> Pricing \cup {None, Gone}]
  BY <1>t DEF CatalogueTypeOK, CatalogueRequestsAreBacked
<1>a. Idle.pc = "idle" BY DEF Idle
<1>n. None \notin PlanNames /\ Gone \notin PlanNames /\ None # Gone
  BY CatalogueNone, BackendAssumption
<1>p. \A p \in Live(plans) : p \in Plans /\ plans[p] # None BY <1>r DEF Live
<1>o. \A p \in Live(plans) : OfferOK(p) BY OffersAreOK DEF OfferInv
(* A request arrives.                                                      *)
<1>b. ASSUME NEW r, Free(h), Begin(h, r), UNCHANGED planCatalogue, r.pc # "plan.prices",
             r.pc \in OnPlan => r.plan \in Live(plans)
      PROVE  OfferInv'
  <2>1. /\ req'[h] = r /\ \A k \in Handlers \ {h} : req'[k] = req[k] /\ faults' = faults
    BY <1>r, <1>b, BeginChange
  <2>2. plans' = plans /\ pricing' = pricing /\ unpriced' = unpriced
    BY <1>b DEF planCatalogue, catalogue
  <2>3. ~At(h, "plan.prices") /\ ~At(h, "plan.prices")' BY <1>a, <1>b, <2>1 DEF At, Free
  <2>4. Live(plans)' = Live(plans) BY <2>2
  <2>5. req'[h].pc \in OnPlan => plans'[req'[h].plan] # None BY <1>b, <1>p, <2>1, <2>2
  <2>6. faults' = faults BY <1>b DEF Begin
  <2>q. QED BY <1>t, <2>1, <2>2, <2>3, <2>4, <2>5, <2>6, OfferQuiet
<1>d. ASSUME Done(h)
      PROVE  /\ req'[h] = Idle /\ \A k \in Handlers \ {h} : req'[k] = req[k]
             /\ faults' = faults /\ req'[h].pc \notin OnPlan /\ ~At(h, "plan.prices")'
  BY <1>r, <1>a, <1>d, DoneChange DEF OnPlan, At
<1>1. ASSUME NEW name \in PlanNames, NEW a \in Amounts \cup {None}, CreateSubscription(h, name, a)
      PROVE  OfferInv'
  <2> DEFINE r == [pc |-> "plan.insert", name |-> name, amount |-> a]
  <2>1. r.pc = "plan.insert" OBVIOUS
  <2>2. Free(h) /\ Begin(h, r) /\ UNCHANGED planCatalogue BY <1>1 DEF CreateSubscription
  <2> HIDE DEF r
  <2>q. QED BY <1>b, <2>1, <2>2 DEF OnPlan
<1>2. CASE InsertPlan(h)
  <2>1. req[h] \in Inserting /\ ~At(h, "plan.prices")
    BY <1>2, <1>r, <1>a, CatalogueKinds DEF InsertPlan, At
  <2>2. Done(h) BY <1>2 DEF InsertPlan
  <2>3. CASE UNCHANGED catalogue
    <3>1. UNCHANGED <<plans, pricing, unpriced>> /\ Live(plans)' = Live(plans)
      BY <2>3 DEF catalogue
    <3>q. QED BY <1>d, <1>t, <2>1, <2>2, <3>1, OfferQuiet
  <2>4. ASSUME NEW p \in Plans, IsNext(p, plans), plans' = [plans EXCEPT ![p] = req[h].name],
               IF req[h].amount = None THEN unpriced' = unpriced \cup {p} /\ UNCHANGED pricing
                                       ELSE InsertRow(p, req[h].amount) /\ UNCHANGED unpriced
        PROVE  OfferInv'
    <3>1. plans[p] = None BY <2>4 DEF IsNext
    <3>2. req[h].amount \in Amounts \cup {None} /\ req[h].name \in PlanNames
      BY <2>1 DEF Inserting
    <3>3. /\ plans'[p] = req[h].name /\ plans'[p] # None
          /\ \A q \in Plans \ {p} : plans'[q] = plans[q]
      BY <1>n, <1>r, <2>4, <3>2
    <3>4. unpriced \subseteq unpriced' BY <2>4
    <3>5. /\ \A s \in RowsOf(p) : FALSE
          /\ \A k \in Handlers : ~(At(k, "plan.prices") /\ req[k].plan = p)
      BY <3>1 DEF RowsOf, OfferInv, OfPlansThatWere, OnPlan, At
    <3>6. Writers(p)' = {} BY <1>d, <2>2, <3>5 DEF Writers, At
    (* What comes to the prices is of the new plan.                        *)
    <3>7. /\ \A s \in Rows : pricing'[s] = pricing[s]
                \/ (pricing[s] = None /\ pricing'[s] \in Pricing /\ pricing'[s].plan = p)
          /\ Cardinality(RowsOf(p))' \in {0, 1}
          /\ Cardinality(RowsOf(p))' = 0 => p \in unpriced'
      <4>1. CASE req[h].amount = None
        <5>1. pricing' = pricing /\ p \in unpriced' BY <2>4, <4>1
        <5>2. RowsOf(p)' = {} BY <3>5, <5>1 DEF RowsOf, Live
        <5>q. QED BY <5>1, <5>2, FS_EmptySet
      <4>2. CASE req[h].amount # None
        <5>1. InsertRow(p, req[h].amount) /\ req[h].amount \in Amounts BY <2>4, <3>2, <4>2
        <5>2. PICK r \in Rows : /\ pricing[r] = None
                                /\ pricing'[r] = NewRow(p, req[h].amount)
                                /\ \A s \in Rows \ {r} : pricing'[s] = pricing[s]
                                /\ pricing' \in [Rows -> Pricing \cup {None, Gone}]
                                /\ NewRow(p, req[h].amount) \in Pricing
          BY <1>t, <5>1, RowIsInserted
        <5>3. pricing'[r].plan = p BY <5>2 DEF NewRow
        <5>4. RowsOf(p)' = {r}
          <6>1. r \in RowsOf(p)' BY <5>2, <5>3, CatalogueNone DEF RowsOf, Live
          <6>2. ASSUME NEW s \in RowsOf(p)', s # r PROVE FALSE
            <7>1. s \in Rows BY <5>2 DEF RowsOf, Live
            <7>2. s \in RowsOf(p) BY <1>r, <5>2, <6>2, <7>1 DEF RowsOf, Live
            <7>q. QED BY <3>5, <7>2
          <6>q. QED BY <6>1, <6>2
        <5>5. Cardinality(RowsOf(p))' = 1 BY <5>4, FS_Singleton
        <5>q. QED BY <5>2, <5>3, <5>5
      <4>q. QED BY <4>1, <4>2
    <3>8. ASSUME NEW q \in Live(plans)' PROVE OfferOK(q)'
      <4>1. q \in Plans /\ plans'[q] \notin {None, Gone} BY DEF Live, CatalogueTypeOK
      <4>2. CASE q # p
        <5>1. q \in Live(plans) BY <1>r, <3>3, <4>1, <4>2 DEF Live
        <5>2. OfferOK(q) BY <1>o, <5>1
        <5>3. ASSUME NEW s \in Rows
              PROVE  \/ pricing'[s] = pricing[s]
                     \/ s \notin RowsOf(q) /\ s \notin RowsOf(q)'
          BY <3>7, <4>2 DEF RowsOf, Live
        <5>4. RowsOf(q)' = RowsOf(q) BY <1>t, <5>3, SameRows
        <5>5. Writers(q)' = Writers(q) BY <1>d, <2>1, <2>2, SameWriters
        <5>q. QED BY <1>d, <2>2, <3>4, <5>2, <5>4, <5>5, SameOffer
      <4>3. CASE q = p
        <5>1. Cardinality(Writers(p))' = 0 BY <3>6, FS_EmptySet
        <5>2. Cardinality(Handlers) \in Nat /\ Cardinality(Handlers) # 0
          BY BackendAssumption, FS_EmptySet, FS_CardinalityType
        <5>3. Offers(p)' = Cardinality(RowsOf(p))' BY <3>7, <5>1 DEF Offers
        <5>q. QED BY <3>7, <4>3, <5>2, <5>3 DEF OfferOK
      <4>q. QED BY <4>2, <4>3
    <3>9. \A s \in Rows : \/ pricing'[s] \in {None, Gone}
                          \/ pricing[s] \in Pricing /\ pricing'[s].plan = pricing[s].plan
                          \/ plans'[pricing'[s].plan] # None
      BY <1>r, <3>3, <3>7
    <3>q. QED BY <1>d, <1>t, <2>2, <3>3, <3>8, <3>9, OfferMove
  <2>q. QED BY <1>2, <2>3, <2>4 DEF InsertPlan
<1>3. ASSUME NEW p \in Plans, DeleteSubscription(h, p) PROVE OfferInv'
  <2> DEFINE r == [pc |-> "plan.delete", plan |-> p]
  <2>1. r.pc = "plan.delete" /\ r.plan = p OBVIOUS
  <2>2. Free(h) /\ Begin(h, r) /\ UNCHANGED planCatalogue /\ p \in Live(plans)
    BY <1>3 DEF DeleteSubscription
  <2> HIDE DEF r
  <2>q. QED BY <1>b, <2>1, <2>2
<1>4. CASE DeletePlan(h)
  <2>1. req[h] \in DeletingPlan /\ ~At(h, "plan.prices")
    BY <1>4, <1>r, <1>a, CatalogueKinds DEF DeletePlan, At
  <2>2. PICK p \in Plans : p = req[h].plan BY <2>1 DEF DeletingPlan
  <2>3. /\ plans' = [plans EXCEPT ![p] = Gone] /\ pricing' = WithoutRowsOf(p) /\ Done(h)
        /\ UNCHANGED unpriced
    BY <1>4, <2>2 DEF DeletePlan
  <2>4. /\ pricing' \in [Rows -> Pricing \cup {None, Gone}]
        /\ \A r \in Rows : \/ pricing'[r] = pricing[r] /\ r \notin RowsOf(p)
                           \/ pricing'[r] = Gone /\ r \in RowsOf(p) /\ pricing[r] # None
    BY <1>t, <2>3, RowsAreDeleted
  <2>5. /\ plans'[p] = Gone /\ \A q \in Plans \ {p} : plans'[q] = plans[q] BY <1>r, <2>3
  <2>6. ASSUME NEW q \in Live(plans)' PROVE OfferOK(q)'
    <3>1. q \in Plans \ {p} /\ plans'[q] \notin {None, Gone}
      BY <2>5 DEF Live, CatalogueTypeOK
    <3>2. q \in Live(plans) BY <1>r, <2>5, <3>1 DEF Live
    <3>3. OfferOK(q) BY <1>o, <3>2
    <3>4. \A r \in RowsOf(p) : r \notin RowsOf(q) /\ r \notin RowsOf(q)'
      BY <2>4, <3>1 DEF RowsOf, Live
    <3>5. RowsOf(q)' = RowsOf(q) BY <1>t, <2>4, <3>4, SameRows
    <3>6. Writers(q)' = Writers(q) BY <1>d, <2>1, <2>3, SameWriters
    <3>q. QED BY <1>d, <2>3, <3>3, <3>5, <3>6, SameOffer
  <2>7. \A s \in Rows : \/ pricing'[s] \in {None, Gone}
                        \/ pricing[s] \in Pricing /\ pricing'[s].plan = pricing[s].plan
                        \/ plans'[pricing'[s].plan] # None
    BY <1>r, <2>4
  <2>8. \A q \in Plans : plans[q] # None => plans'[q] # None BY <1>n, <2>5
  <2>q. QED BY <1>d, <1>t, <2>3, <2>6, <2>7, <2>8, OfferMove
<1>5. ASSUME NEW p \in Plans, UpdateSubscription(h, p) PROVE OfferInv'
  <2>1. PICK amount \in Amounts \cup {None} :
            Begin(h, [pc |-> "plan.update", plan |-> p, amount |-> amount])
    BY <1>5 DEF UpdateSubscription
  <2> DEFINE r == [pc |-> "plan.update", plan |-> p, amount |-> amount]
  <2>2. r.pc = "plan.update" /\ r.plan = p OBVIOUS
  <2>3. Free(h) /\ Begin(h, r) /\ UNCHANGED planCatalogue /\ p \in Live(plans)
    BY <1>5, <2>1 DEF UpdateSubscription
  <2> HIDE DEF r
  <2>q. QED BY <1>b, <2>2, <2>3
<1>6. CASE UpdatePlan(h)
  <2>1. /\ req[h] \in Updating /\ ~At(h, "plan.prices") /\ req[h].pc = "plan.update"
    BY <1>6, <1>r, <1>a, CatalogueKinds DEF UpdatePlan, At
  <2>2. plans[req[h].plan] # None BY <2>1 DEF OfferInv, OfPlansThatWere, OnPlan
  <2>3. UNCHANGED <<pricing, unpriced>> BY <1>6 DEF UpdatePlan
  <2>4. /\ \A q \in Plans : plans[q] # None => plans'[q] # None
        /\ Live(plans)' \subseteq Live(plans)
    <3>1. CASE UNCHANGED plans BY <3>1 DEF Live
    <3>2. CASE /\ req[h].plan \in Live(plans)
               /\ \E name \in PlanNames : plans' = [plans EXCEPT ![req[h].plan] = name]
      BY <1>n, <1>p, <1>r, <3>2 DEF Live
    <3>q. QED BY <1>6, <3>1, <3>2 DEF UpdatePlan
  <2>5. CASE Done(h) BY <1>d, <1>t, <2>1, <2>3, <2>4, <2>5, OfferQuiet
  <2>6. CASE Step(h, "plan.drop")
    <3>1. /\ req'[h] = [req[h] EXCEPT !.pc = "plan.drop"]
          /\ \A k \in Handlers \ {h} : req'[k] = req[k]
          /\ faults' = faults
      BY <1>r, <2>6, StepChange
    <3>2. req'[h].pc = "plan.drop" /\ req'[h].plan = req[h].plan /\ req[h].plan \in Plans
      BY <2>1, <3>1 DEF Updating
    <3>3. ~At(h, "plan.prices")' BY <3>2 DEF At
    <3>q. QED BY <1>t, <2>1, <2>2, <2>3, <2>4, <3>1, <3>2, <3>3, OfferQuiet
  <2>q. QED BY <1>6, <2>5, <2>6 DEF UpdatePlan
<1>7. CASE DropPricing(h)
  <2>1. req[h] \in Updating /\ req[h].pc = "plan.drop"
    BY <1>7, <1>r, <1>a, CatalogueKinds DEF DropPricing, At
  <2>2. PICK p \in Plans : p = req[h].plan BY <2>1 DEF Updating
  <2>3. /\ pricing' = WithoutRowsOf(p) /\ Step(h, "plan.prices")
        /\ UNCHANGED plans /\ UNCHANGED unpriced
    BY <1>7, <2>2 DEF DropPricing
  <2>4. /\ pricing' \in [Rows -> Pricing \cup {None, Gone}]
        /\ \A r \in Rows : \/ pricing'[r] = pricing[r] /\ r \notin RowsOf(p)
                           \/ pricing'[r] = Gone /\ r \in RowsOf(p) /\ pricing[r] # None
    BY <1>t, <2>3, RowsAreDeleted
  <2>5. /\ req'[h] = [req[h] EXCEPT !.pc = "plan.prices"]
        /\ \A k \in Handlers \ {h} : req'[k] = req[k]
        /\ faults' = faults
    BY <1>r, <2>3, StepChange
  <2>6. req'[h].pc = "plan.prices" /\ req'[h].plan = p BY <2>1, <2>2, <2>5 DEF Updating
  <2>7. ASSUME NEW q \in Live(plans)' PROVE OfferOK(q)'
    <3>1. q \in Live(plans) BY <2>3
    <3>2. OfferOK(q) BY <1>o, <3>1
    <3>3. CASE q # p
      <4>1. \A r \in RowsOf(p) : r \notin RowsOf(q) /\ r \notin RowsOf(q)'
        BY <2>4, <3>3 DEF RowsOf, Live
      <4>2. RowsOf(q)' = RowsOf(q) BY <1>t, <2>4, <4>1, SameRows
      <4>3. Writers(q)' = Writers(q) BY <2>1, <2>5, <2>6, <3>3, SameWriters DEF At
      <4>q. QED BY <2>3, <2>5, <3>2, <4>2, <4>3, SameOffer
    <3>4. CASE q = p
      <4>1. RowsOf(p)' = {} BY <1>r, <2>4, <1>t DEF RowsOf, Live
      <4>2. h \in Writers(p)' BY <2>6 DEF Writers, At
      <4>3. Writers(p)' \in SUBSET Handlers BY DEF Writers
      <4>4. /\ Cardinality(Writers(p)') \in Nat /\ Cardinality(Handlers) \in Nat
            /\ Cardinality(Writers(p)') <= Cardinality(Handlers)
            /\ IsFiniteSet(Writers(p)')
        BY <4>3, HandlerCount
      <4>5. Cardinality(Writers(p)') # 0 BY <4>2, <4>4, FS_EmptySet
      <4>6. Cardinality(RowsOf(p)') = 0 BY <4>1, FS_EmptySet
      <4>7. Offers(p)' = Cardinality(Writers(p)') BY <4>4, <4>6 DEF Offers
      <4>q. QED BY <3>4, <4>4, <4>5, <4>7 DEF OfferOK
    <3>q. QED BY <3>3, <3>4
  <2>8. \A s \in Rows : \/ pricing'[s] \in {None, Gone}
                        \/ pricing[s] \in Pricing /\ pricing'[s].plan = pricing[s].plan
                        \/ plans'[pricing'[s].plan] # None
    BY <1>r, <2>4
  <2>9. req'[h].pc \in OnPlan => plans'[req'[h].plan] # None
    BY <2>1, <2>2, <2>3, <2>6 DEF OfferInv, OfPlansThatWere, OnPlan
  <2>q. QED BY <1>t, <2>3, <2>5, <2>7, <2>8, <2>9, OfferMove
<1>8. CASE CreatePricing(h)
  <2>1. req[h] \in Updating /\ req[h].pc = "plan.prices"
    BY <1>8, <1>r, <1>a, CatalogueKinds DEF CreatePricing, At
  <2>2. PICK p \in Plans : p = req[h].plan BY <2>1 DEF Updating
  <2>3. Done(h) /\ UNCHANGED plans BY <1>8 DEF CreatePricing
  <2>4. h \in Writers(p) /\ Writers(p)' = Writers(p) \ {h}
    BY <1>a, <1>d, <2>1, <2>2, <2>3 DEF Writers, At
  <2>5. \A q \in Plans \ {p} : Writers(q)' = Writers(q)
    BY <1>d, <2>2, <2>3, SameWriters
  <2>6. CASE p \notin Live(plans) /\ UNCHANGED <<pricing, unpriced>>
    <3>1. ASSUME NEW q \in Live(plans)' PROVE OfferOK(q)'
      <4>1. q \in Live(plans) /\ q \in Plans \ {p} BY <1>p, <2>3, <2>6
      <4>2. RowsOf(q)' = RowsOf(q) BY <2>6 DEF RowsOf, Live
      <4>q. QED BY <1>d, <1>o, <2>3, <2>5, <2>6, <4>1, <4>2, SameOffer
    <3>2. \A s \in Rows : \/ pricing'[s] \in {None, Gone}
                          \/ pricing[s] \in Pricing /\ pricing'[s].plan = pricing[s].plan
                          \/ plans'[pricing'[s].plan] # None
      BY <1>r, <2>6
    <3>q. QED BY <1>d, <1>t, <2>3, <3>1, <3>2, OfferMove
  <2>8. CASE p \in Live(plans) /\ UNCHANGED pricing /\ unpriced' = unpriced \cup {p}
    <3>1. ASSUME NEW q \in Live(plans)' PROVE OfferOK(q)'
      <4>1. q \in Live(plans) /\ OfferOK(q) BY <1>o, <2>3
      <4>2. RowsOf(q)' = RowsOf(q) BY <2>8 DEF RowsOf, Live
      <4>3. CASE q # p
        BY <1>d, <1>p, <2>3, <2>5, <2>8, <4>1, <4>2, <4>3, SameOffer
      <4>4. CASE q = p
        <5> DEFINE rows == Cardinality(RowsOf(p))
                   writers == Cardinality(Writers(p))
                   writers2 == Cardinality(Writers(p)')
                   H == Cardinality(Handlers)
        <5>1. rows \in Nat
          <6>1. RowsOf(p) \in SUBSET Rows BY <1>r DEF RowsOf, Live
          <6>q. QED BY <6>1, RowCount
        <5>2. writers \in Nat /\ H \in Nat /\ writers2 = writers - 1
          <6>1. Writers(p) \in SUBSET Handlers BY DEF Writers
          <6>q. QED BY <2>4, <6>1, HandlerCount, OneHandlerLess
        <5>3. rows + writers <= H BY <4>1, <4>4 DEF OfferOK, Offers
        <5>4. Offers(p)' = rows + writers2 BY <4>2, <4>4 DEF Offers
        <5> HIDE DEF rows, writers, writers2, H
        <5>5. Offers(p)' <= H BY <5>1, <5>2, <5>3, <5>4
        <5>6. p \in unpriced' BY <2>8
        <5>q. QED BY <4>4, <5>5, <5>6 DEF OfferOK, H
      <4>q. QED BY <4>3, <4>4
    <3>2. \A s \in Rows : \/ pricing'[s] \in {None, Gone}
                          \/ pricing[s] \in Pricing /\ pricing'[s].plan = pricing[s].plan
                          \/ plans'[pricing'[s].plan] # None
      BY <1>r, <2>8
    <3>q. QED BY <1>d, <1>t, <2>3, <3>1, <3>2, OfferMove
  <2>7. CASE /\ p \in Live(plans) /\ InsertRow(p, req[h].amount)
             /\ unpriced' = unpriced \ {p}
    <3>1. req[h].amount \in Amounts BY <1>r, <2>1 DEF CatalogueIsBacked
    <3>2. PICK r \in Rows : /\ pricing[r] = None
                            /\ pricing'[r] = NewRow(p, req[h].amount)
                            /\ \A s \in Rows \ {r} : pricing'[s] = pricing[s]
                            /\ pricing' \in [Rows -> Pricing \cup {None, Gone}]
                            /\ NewRow(p, req[h].amount) \in Pricing
      BY <1>t, <2>7, <3>1, RowIsInserted
    <3>3. pricing'[r].plan = p BY <3>2 DEF NewRow
    <3>4. ASSUME NEW q \in Live(plans)' PROVE OfferOK(q)'
      <4>1. q \in Live(plans) /\ OfferOK(q) BY <1>o, <2>3
      <4>2. CASE q # p
        <5>1. r \notin RowsOf(q) /\ r \notin RowsOf(q)'
          BY <3>2, <3>3, <4>2 DEF RowsOf, Live
        <5>2. RowsOf(q)' = RowsOf(q) BY <1>t, <3>2, <5>1, SameRows
        <5>q. QED BY <1>d, <1>p, <2>3, <2>5, <2>7, <4>1, <4>2, <5>2, SameOffer
      <4>3. CASE q = p
        <5>1. r \notin RowsOf(p) /\ RowsOf(p)' = RowsOf(p) \cup {r}
          <6>1. r \notin RowsOf(p) BY <3>2 DEF RowsOf, Live
          <6>2. r \in RowsOf(p)' BY <3>2, <3>3, CatalogueNone DEF RowsOf, Live
          <6>3. ASSUME NEW s, s # r PROVE s \in RowsOf(p)' <=> s \in RowsOf(p)
            <7>1. CASE s \in Rows BY <1>r, <3>2, <6>3, <7>1 DEF RowsOf, Live
            <7>2. CASE s \notin Rows BY <1>r, <3>2, <7>2 DEF RowsOf, Live
            <7>q. QED BY <7>1, <7>2
          <6>q. QED BY <6>1, <6>2, <6>3
        <5> DEFINE rows == Cardinality(RowsOf(p))
                   rows2 == Cardinality(RowsOf(p)')
                   writers == Cardinality(Writers(p))
                   writers2 == Cardinality(Writers(p)')
        <5>2. RowsOf(p) \in SUBSET Rows BY <1>r DEF RowsOf, Live
        <5>3. Writers(p) \in SUBSET Handlers BY DEF Writers
        <5>4. IsFiniteSet(RowsOf(p)) /\ rows \in Nat BY <5>2, RowCount
        <5>5. writers \in Nat BY <5>3, HandlerCount
        <5>6. rows2 = rows + 1 BY <5>1, <5>4, FS_AddElement
        <5>7. writers2 = writers - 1 BY <2>4, <5>3, OneHandlerLess
        <5>8. Offers(p) = rows + writers /\ Offers(p)' = rows2 + writers2 BY DEF Offers
        <5> HIDE DEF rows, rows2, writers, writers2
        <5>9. Offers(p)' = Offers(p) /\ rows2 # 0 BY <5>4, <5>5, <5>6, <5>7, <5>8
        <5>10. writers2 \in Nat
          <6>1. Writers(p)' \in SUBSET Handlers BY DEF Writers
          <6>q. QED BY <6>1, HandlerCount DEF writers2
        <5>11. Offers(p)' # 0 BY <5>4, <5>6, <5>8, <5>10
        <5>q. QED BY <4>1, <4>3, <5>9, <5>11 DEF OfferOK
      <4>q. QED BY <4>2, <4>3
    <3>5. \A s \in Rows : \/ pricing'[s] \in {None, Gone}
                          \/ pricing[s] \in Pricing /\ pricing'[s].plan = pricing[s].plan
                          \/ plans'[pricing'[s].plan] # None
      BY <1>p, <1>r, <2>3, <2>7, <3>2, <3>3
    <3>q. QED BY <1>d, <1>t, <2>3, <3>4, <3>5, OfferMove
  <2>q. QED BY <1>8, <2>2, <2>6, <2>7, <2>8 DEF CreatePricing
<1>9. ASSUME NEW row \in Rows, NEW pc \in {"buy.history", "upgrade.find"}, ReadPlan(h, row, pc)
      PROVE  OfferInv'
  <2> DEFINE r == [pc |-> pc, row |-> row, read |-> pricing[row], history |-> None,
                   price |-> None]
  <2>1. r.pc = pc OBVIOUS
  <2>2. Free(h) /\ Begin(h, r) /\ UNCHANGED planCatalogue BY <1>9 DEF ReadPlan
  <2> HIDE DEF r
  <2>q. QED BY <1>b, <2>1, <2>2 DEF OnPlan
(* What is left of a purchase.                                             *)
<1>10. CASE \/ CreateHistory(h) \/ FindHistory(h) \/ RewriteHistory(h) \/ GetPrice(h)
            \/ CreatePrice(h) \/ StorePrice(h) \/ CreateSubscriptionCheckout(h)
            \/ RecordSession(h)
  <2>1. req[h] \in BuyRequest /\ ~At(h, "plan.prices")
    BY <1>10, <1>r, <1>a, CatalogueKinds
       DEF CreateHistory, FindHistory, RewriteHistory, GetPrice, CreatePrice, StorePrice,
           CreateSubscriptionCheckout, RecordSession, At, Buying, Charging
  <2>2. UNCHANGED <<plans, unpriced, faults>>
    BY <1>10 DEF CreateHistory, FindHistory, RewriteHistory, Charge, Write, GetPrice, CreatePrice,
                 StorePrice, CreateSubscriptionCheckout, RecordSession,
                 planCatalogue, catalogue, Begin, Step, Done
  <2>3. Live(plans)' = Live(plans) BY <2>2
  <2>4. \A k \in Handlers \ {h} : req'[k] = req[k]
    BY <1>10, <1>r DEF CreateHistory, FindHistory, RewriteHistory, Charge, Write, GetPrice,
                       CreatePrice, StorePrice, CreateSubscriptionCheckout, RecordSession,
                       Begin, Step, Done
  <2>5. req'[h].pc \notin OnPlan
    <3>1. ASSUME NEW i, Charge(h, i) PROVE req'[h].pc \notin OnPlan
      BY <1>r, <2>1, <3>1 DEF Charge, Write, Begin, BuyRequest, OnPlan
    <3>2. CASE CreateHistory(h) \/ RewriteHistory(h)
      BY <3>1, <3>2 DEF CreateHistory, RewriteHistory
    <3>3. CASE FindHistory(h)
      <4>1. CASE Done(h) BY <1>d, <4>1
      <4>2. ASSUME NEW i, Begin(h, [req[h] EXCEPT !.pc = "upgrade.write", !.history = i])
            PROVE  req'[h].pc \notin OnPlan
        BY <1>r, <2>1, <4>2 DEF Begin, BuyRequest, OnPlan
      <4>q. QED BY <3>3, <4>1, <4>2 DEF FindHistory
    <3>4. CASE GetPrice(h)
      <4>1. CASE Step(h, "buy.price") BY <1>r, <2>1, <4>1 DEF Step, BuyRequest, OnPlan
      <4>2. CASE Begin(h, [req[h] EXCEPT !.pc = "buy.session",
                                         !.price = req[h].read.stripePriceId])
        BY <1>r, <2>1, <4>2 DEF Begin, BuyRequest, OnPlan
      <4>q. QED BY <3>4, <4>1, <4>2 DEF GetPrice
    <3>5. CASE CreatePrice(h) BY <1>r, <2>1, <3>5 DEF CreatePrice, Begin, BuyRequest, OnPlan
    <3>6. CASE StorePrice(h)
      <4>1. CASE Done(h) BY <1>d, <4>1
      <4>2. CASE Step(h, "buy.session") BY <1>r, <2>1, <4>2 DEF Step, BuyRequest, OnPlan
      <4>q. QED BY <3>6, <4>1, <4>2 DEF StorePrice
    <3>7. CASE CreateSubscriptionCheckout(h)
      BY <1>r, <2>1, <3>7 DEF CreateSubscriptionCheckout, Step, BuyRequest, OnPlan
    <3>8. CASE RecordSession(h) BY <1>d, <3>8 DEF RecordSession
    <3>q. QED BY <1>10, <3>2, <3>3, <3>4, <3>5, <3>6, <3>7, <3>8
  <2>6. ~At(h, "plan.prices")' BY <2>5 DEF OnPlan, At
  <2>7. \A s \in Rows : \/ pricing'[s] = pricing[s]
                        \/ /\ pricing[s] \in Pricing /\ pricing'[s] \in Pricing
                           /\ pricing'[s].plan = pricing[s].plan
    <3>1. CASE UNCHANGED pricing BY <3>1
    <3>2. CASE StorePrice(h) /\ req[h].row \in Live(pricing)
      <4>1. PICK row, price : row = req[h].row /\ price = req[h].price OBVIOUS
      <4>2. row \in Rows /\ price \in StripePrices
        BY <1>r, <3>2, <4>1, <2>1 DEF CatalogueIsBacked, StorePrice, At, Takes, BuyRequest
      <4>3. pricing[row] \in Pricing BY <1>r, <3>2, <4>1 DEF Live
      <4>4. pricing' = [pricing EXCEPT ![row] = [pricing[row] EXCEPT !.stripePriceId = price]]
        BY <3>2, <4>1 DEF StorePrice
      <4>5. /\ [pricing[row] EXCEPT !.stripePriceId = price] \in Pricing
            /\ [pricing[row] EXCEPT !.stripePriceId = price].plan = pricing[row].plan
        BY <4>2, <4>3 DEF Pricing
      <4>q. QED BY <1>r, <4>2, <4>3, <4>4, <4>5
    <3>q. QED BY <1>10, <3>1, <3>2
          DEF CreateHistory, FindHistory, RewriteHistory, GetPrice, CreatePrice, StorePrice,
              CreateSubscriptionCheckout, RecordSession, planCatalogue, catalogue
  <2>q. QED BY <1>t, <2>1, <2>2, <2>3, <2>4, <2>5, <2>6, <2>7, OfferQuiet
<1>q. QED
  BY <1>1, <1>2, <1>3, <1>4, <1>5, <1>6, <1>7, <1>8, <1>9, <1>10
     DEF CatalogueHandler, BuyPlan, UpgradePlan

LEMMA OfferInvariance == CatalogueSpec => []OfferInv
<1>1. BackendInit /\ CatalogueInit => OfferInv
  <2> SUFFICES ASSUME BackendInit, CatalogueInit PROVE OfferInv
    OBVIOUS
  <2>1. \A k \in Handlers : req[k] = Idle BY InitialRequests
  <2>2. Live(plans) = {} /\ Live(pricing) = {} BY DEF CatalogueInit, Live
  <2>q. QED BY <2>1, <2>2 DEF OfferInv, OfPlansThatWere, PricingReplaced, OnPlan, Idle
<1>2. BuyInv /\ BuyInv' /\ OfferInv /\ [CatalogueNext]_<<backend, planCatalogue>> => OfferInv'
  <2> SUFFICES ASSUME BuyInv, CatalogueTypeOK', OfferInv,
                      [CatalogueNext]_<<backend, planCatalogue>>
               PROVE  OfferInv'
    BY DEF BuyInv
  <2>1. CASE UNCHANGED <<backend, planCatalogue>>
    BY <2>1 DEF backend, planCatalogue, catalogue, OfferInv, OfPlansThatWere, PricingReplaced,
                RowsOf, Live, At
  <2>2. CASE Restart /\ UNCHANGED planCatalogue
    <3>1. UNCHANGED <<plans, pricing>> BY <2>2 DEF planCatalogue, catalogue
    <3>2. /\ \A k \in Handlers : req'[k] = Idle
          /\ faults' = faults + 1 /\ faults \in Nat
      BY <2>2, RestartChange, BackendAssumption DEF BuyInv, CatalogueTypeOK
    <3>3. OfPlansThatWere' BY <3>1, <3>2 DEF OfferInv, OfPlansThatWere, Live, OnPlan, Idle
    <3>4. ASSUME NEW p \in Live(plans)' PROVE OfferOK(p)'
      <4>1. p \in Live(plans) /\ OfferOK(p) BY <3>1, OffersAreOK DEF OfferInv
      <4>2. RowsOf(p)' = RowsOf(p) BY <3>1 DEF RowsOf
      <4>3. Writers(p)' = {} BY <3>2 DEF Writers, At, Idle
      <4> DEFINE rows == Cardinality(RowsOf(p))
                 writers == Cardinality(Writers(p))
                 H == Cardinality(Handlers)
      <4>4. rows \in Nat
        <5>1. RowsOf(p) \in SUBSET Rows BY DEF RowsOf, Live, BuyInv, CatalogueTypeOK
        <5>q. QED BY <5>1, RowCount
      <4>5. writers \in Nat /\ H \in Nat
        <5>1. Writers(p) \in SUBSET Handlers BY DEF Writers
        <5>q. QED BY <5>1, HandlerCount
      <4>6. Cardinality(Writers(p)') = 0 BY <4>3, FS_EmptySet
      <4>7. Offers(p)' = rows BY <4>2, <4>4, <4>6 DEF Offers
      <4>8. rows + writers <= H BY <4>1 DEF OfferOK, Offers
      <4> HIDE DEF rows, writers, H
      <4>9. Offers(p)' <= H /\ faults' > 0 BY <3>2, <4>4, <4>5, <4>7, <4>8
      <4>q. QED BY <4>9 DEF OfferOK, H
    <3>5. (\A p \in Live(plans) : OfferOK(p))' BY <3>4, Zenon
    <3>6. (\A p \in Live(plans) : OfferOK(p))' => PricingReplaced' BY OffersAreOK, PTL
    <3>q. QED BY <3>3, <3>5, <3>6 DEF OfferInv
  <2>q. QED BY <2>1, <2>2, OfferStep DEF CatalogueNext
<1>q. QED BY <1>1, <1>2, BuyInvariance, PTL DEF CatalogueSpec

(* However many updates of one plan overlap, each leaves at most one set   *)
(* of prices: deleteMany and createMany of updateSubscription are two      *)
(* calls, and a plan without prices has one of them still to come, lost it *)
(* to a failure, or was last to have none, or ones whose placeholders were *)
(* refused.                                                                *)
THEOREM PricesAreReplaced == CatalogueSpec => []PricingReplaced
<1>1. OfferInv => PricingReplaced BY DEF OfferInv
<1>q. QED BY <1>1, OfferInvariance, PTL
=============================================================================
