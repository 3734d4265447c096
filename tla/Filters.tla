------------------------------- MODULE Filters -------------------------------
(***************************************************************************)
(* The account, organizational unit and tag filters that decide whether a  *)
(* finding is processed at all, and the two caches of a Lambda container   *)
(* they are evaluated from: the parameters read from Parameter Store and   *)
(* the organizational units of each account.  Neither cache expires.       *)
(*                                                                         *)
(* Both calls fail open: without parameters every filter is disabled, and  *)
(* an error of AWS Organizations is an account without units.              *)
(***************************************************************************)
EXTENDS FiniteSets

CONSTANTS
  Accounts,  \* AwsAccountId
  Units,     \* organizational units
  Tags,      \* tag keys
  UnitsOf,   \* account -> its parent units, {} outside the organization
  Configs,   \* what an administrator may set the parameters to
  Unset      \* nothing cached

\* A filter: a mode and a list of values.
Modes == {"Include", "Exclude", "Disabled"}
Filter(S) == [mode: Modes, list: SUBSET S]
FilterConfig == [account: Filter(Accounts), unit: Filter(Units), tag: Filter(Tags)]

ASSUME FilterAssumption ==
  /\ UnitsOf \in [Accounts -> SUBSET Units]
  /\ Configs \subseteq FilterConfig
  /\ \A parents \in SUBSET Units : Unset # parents
  /\ Unset \notin Configs

VARIABLES
  ssm,     \* the parameters under /ASR/Filters
  params,  \* parameterCache: the parameters this container has read, or Unset
  units    \* parentOUCache: account -> the units found, or Unset

filterVars == <<ssm, params, units>>

\* createDefaultFilterConfig
DefaultConfig ==
  LET off == [mode |-> "Disabled", list |-> {}]
  IN  [account |-> off, unit |-> off, tag |-> off]

FilterInit ==
  /\ ssm \in Configs
  /\ params = Unset
  /\ units = [a \in Accounts |-> Unset]

\* isFilterDisabled
IsFilterDisabled(filter) == filter.mode = "Disabled" \/ filter.list = {}

\* Mutant of ApplyGenericFilter: the modes swapped.
SwappedFilter(values, filter) ==
  IF filter.mode = "Include" THEN values \cap filter.list = {} ELSE values \cap filter.list # {}

\* applyGenericFilter
ApplyGenericFilter(values, filter) ==
  IF filter.mode = "Include" THEN values \cap filter.list # {} ELSE values \cap filter.list = {}

\* applyAccountFilter
ApplyAccountFilter(account, config) ==
  IsFilterDisabled(config.account) \/ ApplyGenericFilter({account}, config.account)

\* Mutant of ApplyUnitFilter: an account without units is judged like any other.
ApplyUnitFilterAlways(parents, config) ==
  IsFilterDisabled(config.unit) \/ ApplyGenericFilter(parents, config.unit)

\* applyOUFilter, given the units of the account.
ApplyUnitFilter(parents, config) ==
  IsFilterDisabled(config.unit) \/ parents = {} \/ ApplyGenericFilter(parents, config.unit)

\* applyTagFilter, given extractResourceTagKeys of the finding.
ApplyTagFilter(tags, config) ==
  IsFilterDisabled(config.tag) \/ tags = {} \/ ApplyGenericFilter(tags, config.tag)

\* applyFilters as a whole, for one configuration and one answer about the units.
Passes(account, tags, config, parents) ==
  /\ ApplyAccountFilter(account, config)
  /\ ApplyUnitFilter(parents, config)
  /\ ApplyTagFilter(tags, config)

\* createFilterChecks runs the checks in order: the units are asked for only
\* after the account check has passed.
NeedsUnits(account, config) ==
  ApplyAccountFilter(account, config) /\ ~IsFilterDisabled(config.unit)

\* An administrator changes the parameters.
SetParameters(config) ==
  /\ ssm # config
  /\ ssm' = config
  /\ UNCHANGED <<params, units>>

\* What getFilterConfigurations makes of GetParametersByPath's answer or error.
LoadedConfig(ok) == IF ok THEN ssm ELSE DefaultConfig

\* getCachedParametersByPath: only an answer is cached.
LoadParameters(ok) ==
  /\ params' = IF ok THEN ssm ELSE params
  /\ UNCHANGED <<ssm, units>>

\* What getParentOUs makes of ListParents' answer or error.
FoundUnits(account, ok) == IF ok THEN UnitsOf[account] ELSE {}

\* cacheAndReturnOUs and handleOrganizationsError: an error is cached as well,
\* over whatever a concurrent call has cached.
FindUnits(account, ok) ==
  /\ units' = [units EXCEPT ![account] = FoundUnits(account, ok)]
  /\ UNCHANGED <<ssm, params>>

\* A new container: the module-level caches are empty.
ForgetCaches ==
  /\ params' = Unset
  /\ units' = [a \in Accounts |-> Unset]
  /\ UNCHANGED ssm

FilterTypeOK ==
  /\ ssm \in Configs
  /\ params \in Configs \cup {Unset}
  /\ DOMAIN units = Accounts
  /\ \A a \in Accounts : units[a] = Unset \/ units[a] \subseteq Units
=============================================================================
