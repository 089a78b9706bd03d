----------------------------- MODULE Archetypes -----------------------------
(***************************************************************************)
(* What a company is (value_engine/archetypes.py): its economic archetype, *)
(* what is special about it, the margin asked of its sector and the model  *)
(* recommended for it, and the models that the registry lets value it.     *)
(*                                                                         *)
(* A sector text is the set of the businesses its words name, one business *)
(* for each keyword list of the source; of the overlays those that the     *)
(* engine reads, of the models those that it can run.                      *)
(***************************************************************************)
EXTENDS Integers, Sequences, SequencesExt, TLC

Rim == "RESIDUAL_INCOME_MODEL"
EarningsDcf == "NORMALIZED_OWNER_EARNINGS_DCF"
LeaseDcf == "LEASE_CASHFLOW_DCF"
ConcessionDcf == "CONCESSION_DCF"

Cyclical == "HIGH_CYCLICALITY"
Heavy == "CAPITAL_INTENSIVE"
Commodity == "COMMODITY_EXPOSED"
Compounder == "ASSET_LIGHT_COMPOUNDER"

AnyCycle == "LATEST_OR_MID_CYCLE"
LongCycle == "MID_CYCLE_7_TO_10_YEARS"

Entry(primary, secondary, forbidden, policy) ==
  [primary |-> primary, secondary |-> secondary, forbidden |-> forbidden, policy |-> policy]

Profile(archetype, overlays, base, model) ==
  [archetype |-> archetype, overlays |-> overlays, base |-> base, model |-> model]

(***************************************************************************)
(* ARCHETYPE_REGISTRY                                                      *)
(***************************************************************************)
All(archetypes, entry) == [a \in archetypes |-> entry]
OwnerEarningsEntry == Entry(EarningsDcf, {}, {}, AnyCycle)
FullCycleEntry == Entry(EarningsDcf, {}, {}, LongCycle)
ConcessionEntry == Entry(ConcessionDcf, {}, {}, AnyCycle)
UtilityEntry == Entry(ConcessionDcf, {EarningsDcf}, {}, AnyCycle)

FinancialEntries ==
  All({"COMMERCIAL_BANK", "CONSUMER_FINANCE", "SECURITIES_BROKER"}, Entry(Rim, {}, {EarningsDcf}, AnyCycle))
  @@ All({"NON_LIFE_INSURANCE", "LIFE_INSURANCE"}, Entry(Rim, {}, {}, AnyCycle))
  @@ All({"INVESTMENT_HOLDING_FINANCIAL"}, Entry("SOTP", {Rim}, {}, AnyCycle))

RealEstateEntries ==
  All({"REAL_ESTATE_DEVELOPER"}, Entry("RNAV", {"SOTP"}, {EarningsDcf}, AnyCycle))
  @@ All({"INDUSTRIAL_REAL_ESTATE"}, Entry(LeaseDcf, {"RNAV", "SOTP", EarningsDcf}, {}, AnyCycle))
  @@ All({"RENTAL_REAL_ESTATE"}, Entry(LeaseDcf, {"RNAV"}, {}, AnyCycle))

ConsumerEntries ==
  All({"CONSUMER_STAPLES", "RETAIL_CHAIN", "CONSUMER_DISCRETIONARY", "MEDIA_CONTENT", "TECHNOLOGY_SERVICES",
       "SOFTWARE_PLATFORM", "TELECOM_OPERATOR", "PHARMACEUTICAL", "HEALTHCARE_SERVICES"}, OwnerEarningsEntry)

MaterialEntries ==
  All({"BASIC_MATERIALS_METALS", "COMMODITY_CHEMICAL", "BUILDING_MATERIALS", "OIL_REFINING_DOWNSTREAM"}, FullCycleEntry)
  @@ All({"SPECIALTY_CHEMICAL"}, OwnerEarningsEntry)
  @@ All({"MINING_RESOURCE"}, Entry("RESERVE_NAV", {}, {EarningsDcf}, LongCycle))
  @@ All({"OIL_GAS_UPSTREAM", "POWER_RENEWABLE"}, ConcessionEntry)
  @@ All({"OILFIELD_SERVICES"}, Entry("MID_CYCLE_FCFF", {}, {ConcessionDcf}, LongCycle))
  @@ All({"ENERGY_INFRASTRUCTURE", "POWER_GENERATION_THERMAL", "POWER_GENERATION_HYDRO", "WATER_UTILITY"}, UtilityEntry)

IndustrialEntries ==
  All({"CONSTRUCTION_EPC", "INDUSTRIAL_MANUFACTURING", "AUTOMOTIVE", "AUTO_COMPONENTS", "LOGISTICS_SERVICES",
       "AIRPORT_SERVICES"}, OwnerEarningsEntry)
  @@ All({"PORT_INFRASTRUCTURE"}, UtilityEntry)
  @@ All({"SHIPPING"}, Entry("FLEET_NAV", {}, {EarningsDcf}, LongCycle))
  @@ All({"AIRLINE"}, Entry("AIRLINE_EBITDAR", {}, {EarningsDcf}, AnyCycle))
  @@ All({"AIRPORT_INFRASTRUCTURE", "CONCESSION_INFRASTRUCTURE"}, ConcessionEntry)

OtherEntries ==
  All({"AGRICULTURE", "EXPORT_MANUFACTURING", "EDUCATION_SERVICES", "GENERIC_ENTERPRISE", "ARCHETYPE_UNKNOWN"},
      OwnerEarningsEntry)
  @@ All({"RUBBER_PLANTATION"}, Entry(LeaseDcf, {"SOTP", EarningsDcf}, {}, AnyCycle))
  @@ All({"AQUACULTURE_EXPORT"}, FullCycleEntry)
  @@ All({"HOTEL_HOSPITALITY"}, Entry(LeaseDcf, {}, {}, AnyCycle))
  @@ All({"HOLDING_COMPANY", "CONGLOMERATE"}, Entry("SOTP", {EarningsDcf}, {}, AnyCycle))

Registry == FinancialEntries @@ RealEstateEntries @@ ConsumerEntries @@ MaterialEntries
            @@ IndustrialEntries @@ OtherEntries

MayValue(model, archetype) ==
  /\ model \in {Registry[archetype].primary} \union Registry[archetype].secondary
  /\ model \notin Registry[archetype].forbidden

(***************************************************************************)
(* Classification                                                          *)
(***************************************************************************)
(* EXPLICIT_SYMBOL_ARCHETYPES *)
NamedProfiles ==
  <<<<{"MBB", "TCB", "VPB", "BID", "CTG", "HDB", "TPB", "VIB"}, Profile("COMMERCIAL_BANK", {}, 25, Rim)>>,
    <<{"ACB"}, Profile("COMMERCIAL_BANK", {Compounder}, 25, Rim)>>,
    <<{"VCB"}, Profile("COMMERCIAL_BANK", {Compounder}, 20, Rim)>>, <<{"STB"}, Profile("COMMERCIAL_BANK", {}, 30, Rim)>>,
    <<{"SSI", "VCI", "HCM", "FTS"}, Profile("SECURITIES_BROKER", {Cyclical}, 30, Rim)>>,
    <<{"VND"}, Profile("SECURITIES_BROKER", {Cyclical}, 35, Rim)>>,
    <<{"FPT"}, Profile("TECHNOLOGY_SERVICES", {Compounder}, 20, EarningsDcf)>>,
    <<{"VNM"}, Profile("CONSUMER_STAPLES", {Compounder}, 20, EarningsDcf)>>,
    <<{"MWG", "PNJ"}, Profile("RETAIL_CHAIN", {Compounder}, 25, EarningsDcf)>>,
    <<{"SAB"}, Profile("CONSUMER_STAPLES", {}, 25, EarningsDcf)>>,
    <<{"MSN"}, Profile("CONGLOMERATE", {Heavy}, 35, "SOTP")>>,
    <<{"HPG"}, Profile("BASIC_MATERIALS_METALS", {Heavy, Cyclical, Commodity}, 40, EarningsDcf)>>,
    <<{"HSG", "NKG"}, Profile("BASIC_MATERIALS_METALS", {Cyclical, Commodity}, 45, EarningsDcf)>>,
    <<{"DGC"}, Profile("SPECIALTY_CHEMICAL", {Cyclical, Commodity}, 35, EarningsDcf)>>,
    <<{"DCM", "DPM"}, Profile("COMMODITY_CHEMICAL", {Cyclical, Commodity}, 40, EarningsDcf)>>,
    <<{"GAS"}, Profile("ENERGY_INFRASTRUCTURE", {}, 25, ConcessionDcf)>>,
    <<{"POW", "PPC", "NT2"}, Profile("POWER_GENERATION_THERMAL", {Heavy}, 25, ConcessionDcf)>>,
    <<{"REE"}, Profile("CONGLOMERATE", {Compounder}, 25, "SOTP")>>,
    <<{"PLX"}, Profile("OIL_REFINING_DOWNSTREAM", {}, 30, EarningsDcf)>>,
    <<{"PVD"}, Profile("OILFIELD_SERVICES", {Cyclical, Heavy}, 40, "MID_CYCLE_FCFF")>>,
    <<{"PVS"}, Profile("OILFIELD_SERVICES", {Cyclical}, 40, "MID_CYCLE_FCFF")>>,
    <<{"IDC"}, Profile("INDUSTRIAL_REAL_ESTATE", {}, 25, LeaseDcf)>>,
    <<{"SZC", "BCM"}, Profile("INDUSTRIAL_REAL_ESTATE", {}, 30, LeaseDcf)>>,
    <<{"KBC"}, Profile("INDUSTRIAL_REAL_ESTATE", {Cyclical}, 35, LeaseDcf)>>,
    <<{"NTC", "SIP"}, Profile("INDUSTRIAL_REAL_ESTATE", {Compounder}, 25, LeaseDcf)>>,
    <<{"PHR", "DPR"}, Profile("RUBBER_PLANTATION", {}, 30, "SOTP")>>,
    <<{"GVR"}, Profile("RUBBER_PLANTATION", {}, 35, "SOTP")>>, <<{"VIC"}, Profile("CONGLOMERATE", {Heavy}, 50, "SOTP")>>,
    <<{"VEA"}, Profile("HOLDING_COMPANY", {}, 25, "SOTP")>>,
    <<{"VHM"}, Profile("REAL_ESTATE_DEVELOPER", {Heavy, Cyclical}, 40, "RNAV")>>,
    <<{"NVL"}, Profile("REAL_ESTATE_DEVELOPER", {}, 50, "RNAV")>>,
    <<{"KDH"}, Profile("REAL_ESTATE_DEVELOPER", {}, 35, "RNAV")>>,
    <<{"GMD", "VSC"}, Profile("PORT_INFRASTRUCTURE", {Heavy}, 25, ConcessionDcf)>>,
    <<{"HAH", "VOS"}, Profile("SHIPPING", {Cyclical, Heavy}, 40, "FLEET_NAV")>>,
    <<{"VJC"}, Profile("AIRLINE", {Heavy}, 45, "AIRLINE_EBITDAR")>>,
    <<{"HVN"}, Profile("AIRLINE", {}, 50, "AIRLINE_EBITDAR")>>,
    <<{"DHG"}, Profile("PHARMACEUTICAL", {Compounder}, 20, EarningsDcf)>>,
    <<{"TRA", "TNH"}, Profile("PHARMACEUTICAL", {Compounder}, 25, EarningsDcf)>>,
    <<{"ACV"}, Profile("AIRPORT_INFRASTRUCTURE", {}, 25, ConcessionDcf)>>,
    <<{"AST"}, Profile("AIRPORT_SERVICES", {}, 25, EarningsDcf)>>,
    <<{"BCC", "HT1"}, Profile("BUILDING_MATERIALS", {Cyclical, Commodity}, 35, EarningsDcf)>>,
    <<{"BSR"}, Profile("OIL_REFINING_DOWNSTREAM", {Cyclical, Commodity}, 35, EarningsDcf)>>,
    <<{"CII"}, Profile("CONCESSION_INFRASTRUCTURE", {}, 30, ConcessionDcf)>>,
    <<{"CTD", "FCN"}, Profile("CONSTRUCTION_EPC", {}, 35, EarningsDcf)>>,
    <<{"HAG", "BAF"}, Profile("AGRICULTURE", {Cyclical}, 35, EarningsDcf)>>,
    <<{"HHV"}, Profile("CONCESSION_INFRASTRUCTURE", {Heavy}, 30, ConcessionDcf)>>,
    <<{"VSH", "CHP"}, Profile("POWER_GENERATION_HYDRO", {}, 25, ConcessionDcf)>>,
    <<{"BWE", "TDM"}, Profile("WATER_UTILITY", {}, 20, ConcessionDcf)>>,
    <<{"GEG"}, Profile("POWER_RENEWABLE", {}, 30, ConcessionDcf)>>,
    <<{"KSV", "MSR"}, Profile("MINING_RESOURCE", {Commodity, Heavy}, 40, "RESERVE_NAV")>>,
    <<{"MSH", "TCM"}, Profile("EXPORT_MANUFACTURING", {}, 30, EarningsDcf)>>,
    <<{"PC1"}, Profile("POWER_RENEWABLE", {Heavy}, 30, ConcessionDcf)>>,
    <<{"VGI"}, Profile("TELECOM_OPERATOR", {}, 25, EarningsDcf)>>>>

(* The keyword rules, in their order: the first that a sector meets decides *)
Rules ==
  <<<<"bank", Profile("COMMERCIAL_BANK", {}, 25, Rim)>>,
    <<"securities", Profile("SECURITIES_BROKER", {Cyclical}, 30, Rim)>>,
    <<"insurance", Profile("NON_LIFE_INSURANCE", {}, 25, Rim)>>,
    <<"industrial park", Profile("INDUSTRIAL_REAL_ESTATE", {}, 25, LeaseDcf)>>,
    <<"real estate", Profile("REAL_ESTATE_DEVELOPER", {Cyclical}, 40, "RNAV")>>,
    <<"steel", Profile("BASIC_MATERIALS_METALS", {Heavy, Cyclical, Commodity}, 40, EarningsDcf)>>,
    <<"chemical", Profile("COMMODITY_CHEMICAL", {Cyclical, Commodity}, 40, EarningsDcf)>>,
    <<"mining", Profile("MINING_RESOURCE", {Commodity, Heavy}, 40, "RESERVE_NAV")>>,
    <<"cement", Profile("BUILDING_MATERIALS", {Cyclical, Commodity}, 35, EarningsDcf)>>,
    <<"plastics", Profile("INDUSTRIAL_MANUFACTURING", {Heavy}, 30, EarningsDcf)>>,
    <<"electronics", Profile("INDUSTRIAL_MANUFACTURING", {Heavy}, 30, EarningsDcf)>>,
    <<"drilling", Profile("OILFIELD_SERVICES", {Cyclical, Heavy}, 40, "MID_CYCLE_FCFF")>>,
    <<"refining", Profile("OIL_REFINING_DOWNSTREAM", {Cyclical, Commodity}, 35, EarningsDcf)>>,
    <<"petroleum", Profile("OIL_GAS_UPSTREAM", {Cyclical, Heavy}, 35, ConcessionDcf)>>,
    <<"gas", Profile("ENERGY_INFRASTRUCTURE", {}, 25, ConcessionDcf)>>,
    <<"hydropower", Profile("POWER_GENERATION_HYDRO", {}, 25, ConcessionDcf)>>,
    <<"thermal", Profile("POWER_GENERATION_THERMAL", {Heavy}, 25, ConcessionDcf)>>,
    <<"renewable", Profile("POWER_RENEWABLE", {}, 30, ConcessionDcf)>>,
    <<"water", Profile("WATER_UTILITY", {}, 20, ConcessionDcf)>>,
    <<"power", Profile("CONCESSION_INFRASTRUCTURE", {}, 25, ConcessionDcf)>>,
    <<"software", Profile("TECHNOLOGY_SERVICES", {Compounder}, 20, EarningsDcf)>>,
    <<"construction", Profile("CONSTRUCTION_EPC", {}, 35, EarningsDcf)>>,
    <<"textile", Profile("EXPORT_MANUFACTURING", {}, 30, EarningsDcf)>>,
    <<"automotive", Profile("AUTOMOTIVE", {Heavy}, 35, EarningsDcf)>>,
    <<"education", Profile("EDUCATION_SERVICES", {}, 30, EarningsDcf)>>,
    <<"hotel", Profile("HOTEL_HOSPITALITY", {Heavy}, 35, EarningsDcf)>>,
    <<"farming", Profile("AGRICULTURE", {Cyclical}, 35, EarningsDcf)>>,
    <<"media", Profile("MEDIA_CONTENT", {}, 35, EarningsDcf)>>,
    <<"jewelry", Profile("CONSUMER_DISCRETIONARY", {}, 35, EarningsDcf)>>,
    <<"food", Profile("CONSUMER_STAPLES", {Compounder}, 20, EarningsDcf)>>,
    <<"retail", Profile("RETAIL_CHAIN", {Compounder}, 25, EarningsDcf)>>,
    <<"pharma", Profile("PHARMACEUTICAL", {Compounder}, 20, EarningsDcf)>>,
    <<"port", Profile("PORT_INFRASTRUCTURE", {Heavy}, 25, ConcessionDcf)>>,
    <<"shipping", Profile("SHIPPING", {Cyclical, Heavy}, 40, "FLEET_NAV")>>,
    <<"airline", Profile("AIRLINE", {Heavy}, 45, "AIRLINE_EBITDAR")>>,
    <<"logistics", Profile("LOGISTICS_SERVICES", {}, 25, EarningsDcf)>>,
    <<"rubber", Profile("RUBBER_PLANTATION", {}, 35, LeaseDcf)>>,
    <<"seafood", Profile("AQUACULTURE_EXPORT", {Cyclical}, 35, EarningsDcf)>>,
    <<"trading", Profile("GENERIC_ENTERPRISE", {}, 30, EarningsDcf)>>,
    <<"supporting", Profile("INDUSTRIAL_MANUFACTURING", {Heavy}, 30, EarningsDcf)>>,
    <<"machinery", Profile("INDUSTRIAL_MANUFACTURING", {Heavy}, 30, EarningsDcf)>>,
    <<"hospital", Profile("HEALTHCARE_SERVICES", {Compounder}, 25, EarningsDcf)>>,
    <<"furniture", Profile("EXPORT_MANUFACTURING", {}, 30, EarningsDcf)>>,
    <<"forestry", Profile("AGRICULTURE", {Cyclical}, 35, EarningsDcf)>>,
    <<"dining", Profile("HOTEL_HOSPITALITY", {Heavy}, 35, EarningsDcf)>>,
    <<"consulting", Profile("GENERIC_ENTERPRISE", {}, 30, EarningsDcf)>>,
    <<"tyres", Profile("INDUSTRIAL_MANUFACTURING", {Heavy}, 30, EarningsDcf)>>,
    <<"investment", Profile("HOLDING_COMPANY", {}, 35, EarningsDcf)>>>>

Generic == Profile("GENERIC_ENTERPRISE", {}, 30, EarningsDcf)
Unknown == Profile("ARCHETYPE_UNKNOWN", {}, 30, EarningsDcf)

(* ArchetypeClassifier.classify: a symbol of its own, a sector, or nothing *)
Classify(symbol, sector) ==
  LET own == {i \in DOMAIN NamedProfiles : symbol \in NamedProfiles[i][1]}
      met == {i \in DOMAIN Rules : Rules[i][1] \in sector}
  IN  IF own # {} THEN NamedProfiles[Min(own)][2]
      ELSE IF met # {} THEN Rules[Min(met)][2]
      ELSE IF sector # {} THEN Generic
      ELSE Unknown
=============================================================================
