--------------------------- MODULE SemanticRegistry ---------------------------
(* The frozen registry of canonical attributes, semantic-registry.service.ts:   *)
(*   initializeRegistry, getCanonicalAttribute, resolveCanonicalValue,          *)
(*   convertUnit                                                                *)
(* It is filled once and never changes.  Upper and lower case and blanks around *)
(* a value or a unit are left out, and so are validation rules.                 *)
EXTENDS Integers, Sequences, TLC

CONSTANTS
    AmbiguousPhrases,   \* inputs known to be ambiguous for any attribute
    Numerals,           \* inputs that Number() reads as a finite number
    TruthWords          \* inputs that stand for true or false

\* attribute code -> its legacyAttributeKeys in order
LegacyKeys ==
    "AGRICULTURE.LAND_AREA"             :> <<"landAreaHectares", "landHolding">> @@
    "AGRICULTURE.LAND_OWNERSHIP_STATUS" :> <<"isLandOwner">> @@
    "FINANCIAL.ANNUAL_INCOME"           :> <<"annualIncome">> @@
    "OCCUPATION.CATEGORY"               :> <<"occupationCategory">> @@
    "DEMOGRAPHICS.DATE_OF_BIRTH"        :> <<"dob">> @@
    "DEMOGRAPHICS.GENDER"               :> <<"gender">> @@
    "COMMUNITY.SOCIAL_CATEGORY"         :> <<"casteCategory", "socialCategory">> @@
    "ECONOMIC.EWS_STATUS"               :> <<"isEws", "ewsStatus">> @@
    "IDENTITY.AADHAAR_NUMBER"           :> <<"aadhaarNumber">> @@
    "IDENTITY.BANK_ACCOUNT_NUMBER"      :> <<"bankAccountNumber">> @@
    "DISABILITY.BENCHMARK_STATUS"       :> <<"isPersonWithDisability">>

AttributeCodes == DOMAIN LegacyKeys

\* canonicalUnit of the attributes that are measured.
NoUnit == ""
CanonicalUnit(code) ==
    CASE code = "AGRICULTURE.LAND_AREA"   -> "HECTARE"
      [] code = "FINANCIAL.ANNUAL_INCOME" -> "INR"
      [] OTHER                            -> NoUnit

\* areaConversionMultipliers and currencyConversionMultipliers: a unit as a fraction of
\* the base of its domain.  Regional units are in neither.
Multiple(times, per, base) == [times |-> times, per |-> per, base |-> base]
UnitMultipliers ==
    "HECTARE"  :> Multiple(1, 1, "HECTARE") @@
    "ACRE"     :> Multiple(404686, 1000000, "HECTARE") @@
    "SQ_METER" :> Multiple(1, 10000, "HECTARE") @@
    "CENT"     :> Multiple(4047, 1000000, "HECTARE") @@
    "INR"      :> Multiple(1, 1, "INR") @@
    "LAKH"     :> Multiple(100000, 1, "INR") @@
    "CRORE"    :> Multiple(10000000, 1, "INR") @@
    "THOUSAND" :> Multiple(1000, 1, "INR")

\* convertUnit, rounded down; a value it cannot convert stays as it is.
ConvertUnit(value, from, to) ==
    IF /\ {from, to} \subseteq DOMAIN UnitMultipliers
       /\ UnitMultipliers[from].base = UnitMultipliers[to].base
    THEN LET f == UnitMultipliers[from]
             t == UnitMultipliers[to]
         IN  (value * f.times * t.per) \div (f.per * t.times)
    ELSE value

\* The canonical values of the ENUM attributes.
ControlledValues ==
    "OCCUPATION.CATEGORY" :>
        {"CULTIVATOR", "AGRICULTURAL_LABOURER", "SALARIED_EMPLOYEE", "SELF_EMPLOYED",
         "BUSINESS_OWNER", "STUDENT", "UNEMPLOYED", "RETIRED"} @@
    "DEMOGRAPHICS.GENDER"       :> {"MALE", "FEMALE", "TRANSGENDER", "OTHER"} @@
    "COMMUNITY.SOCIAL_CATEGORY" :> {"GENERAL", "OBC", "SC", "ST"}

DataType(code) ==
    CASE code \in DOMAIN ControlledValues -> "ENUM"
      [] code \in {"AGRICULTURE.LAND_AREA", "FINANCIAL.ANNUAL_INCOME"} -> "NUMBER"
      [] code \in {"AGRICULTURE.LAND_OWNERSHIP_STATUS", "ECONOMIC.EWS_STATUS",
                   "DISABILITY.BENCHMARK_STATUS"} -> "BOOLEAN"
      [] OTHER -> "TEXT or DATE"

\* The aliases that resolve by themselves.
ExactAliases ==
    "OCCUPATION.CATEGORY" :>
       ("cultivator"            :> "CULTIVATOR" @@
        "kisan"                 :> "CULTIVATOR" @@
        "krishak"               :> "CULTIVATOR" @@
        "agricultural labourer" :> "AGRICULTURAL_LABOURER" @@
        "agricultural laborer"  :> "AGRICULTURAL_LABOURER" @@
        "farm labourer"         :> "AGRICULTURAL_LABOURER" @@
        "farm laborer"          :> "AGRICULTURAL_LABOURER" @@
        "salaried employee"     :> "SALARIED_EMPLOYEE" @@
        "salaried"              :> "SALARIED_EMPLOYEE" @@
        "business owner"        :> "BUSINESS_OWNER" @@
        "enterprise owner"      :> "BUSINESS_OWNER") @@
    "DEMOGRAPHICS.GENDER" :>
        ("m" :> "MALE" @@ "male" :> "MALE" @@ "f" :> "FEMALE" @@ "female" :> "FEMALE") @@
    "COMMUNITY.SOCIAL_CATEGORY" :>
        ("gen" :> "GENERAL" @@ "general" :> "GENERAL" @@
         "obc" :> "OBC" @@ "sc" :> "SC" @@ "st" :> "ST")

\* Those that need a context, and those that are ambiguous; all are occupations.
ContextAliases == {"farmer", "agricultural worker", "government employee", "private job",
                   "shopkeeper"}
AmbiguousAliases == {"business", "business worker", "business employee"}

\* The registry is consistent, as initializeRegistry demands: a key leads to one
\* attribute, a code is no key, and an alias stands for one of the values of its attribute.
RegistryConsistent ==
    /\ \A code, other \in AttributeCodes :
        \A i \in DOMAIN LegacyKeys[code], j \in DOMAIN LegacyKeys[other] :
            /\ LegacyKeys[code][i] = LegacyKeys[other][j] => code = other /\ i = j
            /\ LegacyKeys[code][i] \notin AttributeCodes
    /\ \A code \in DOMAIN ExactAliases : \A alias \in DOMAIN ExactAliases[code] :
        ExactAliases[code][alias] \in ControlledValues[code]

ASSUME RegistryAssumption == RegistryConsistent

\* getCanonicalAttribute: the attribute with this code, or its old code, or a legacy key.
AttributesOf(key) == {code \in AttributeCodes :
    \/ code = key
    \/ key = "COMMUNITY.CASTE_CATEGORY" /\ code = "COMMUNITY.SOCIAL_CATEGORY"
    \/ \E i \in DOMAIN LegacyKeys[code] : LegacyKeys[code][i] = key}

\* The ENUM branch: a canonical value comes before an alias, an alias before a phrase.
EnumReason(code, raw) ==
    LET occupation == code = "OCCUPATION.CATEGORY"
    IN  IF raw \in ControlledValues[code] \cup DOMAIN ExactAliases[code] THEN "RESOLVED"
        ELSE IF occupation /\ raw \in ContextAliases THEN "CONTEXT_REQUIRED"
        ELSE IF (occupation /\ raw \in AmbiguousAliases) \/ raw \in AmbiguousPhrases
        THEN "AMBIGUOUS_ALIAS"
        ELSE "UNRESOLVED_ALIAS"

\* The reason resolveCanonicalValue gives for a value that is there.
ResolutionReason(code, raw) ==
    CASE DataType(code) = "ENUM"    -> EnumReason(code, raw)
      [] DataType(code) = "NUMBER"  -> IF raw \in Numerals THEN "RESOLVED" ELSE "INVALID_DATA_TYPE"
      [] DataType(code) = "BOOLEAN" -> IF raw \in TruthWords THEN "RESOLVED" ELSE "INVALID_DATA_TYPE"
      [] OTHER                      -> "RESOLVED"

\* The canonical value of an input that resolves.
CanonicalValue(code, raw) ==
    IF DataType(code) = "ENUM" /\ raw \notin ControlledValues[code]
    THEN ExactAliases[code][raw]
    ELSE raw
===============================================================================
