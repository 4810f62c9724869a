------------------------------ MODULE Operations ------------------------------
(***************************************************************************)
(* The services that run the product, side by side as those of module      *)
(* Services are: experiments and registries, subscriptions, events, health *)
(* signals and reports, and the limits that admit a request.               *)
(***************************************************************************)
EXTENDS Experiments, Registry, Subscriptions, EventIngest, HealthSignals, Oversight, Admission

VARIABLE component      \* the service that this behaviour is about; never changes

operationsVars ==
    <<component, experimentVars, registryVars, subscriptionsVars, eventIngestVars, healthSignalsVars,
    oversightVars, admissionVars>>

Components ==
    {"experiments", "registry", "subscriptions", "events", "health", "oversight", "admission"}

\* What the other services leave open at their start is fixed.
OperationsInit ==
    /\ component \in Components
    /\ ExperimentsInit /\ AdmissionInit
    /\ RegistryInit /\ (component # "registry" => kind = "experiment")
    /\ SubscriptionsInit /\ (component # "subscriptions" => flow = NoFlow)
    /\ EventIngestInit /\ (component # "events" => mode = "buffered")
    /\ HealthSignalsInit /\ (component # "health" => subject = "session" /\ volume = CHOOSE n \in Volumes : TRUE)
    /\ OversightInit /\ (component # "oversight" => domain = "daily")

Rest ==
    /\ UNCHANGED component
    /\ component # "experiments" => UNCHANGED experimentVars
    /\ component # "registry" => UNCHANGED registryVars
    /\ component # "subscriptions" => UNCHANGED subscriptionsVars
    /\ component # "events" => UNCHANGED eventIngestVars
    /\ component # "health" => UNCHANGED healthSignalsVars
    /\ component # "oversight" => UNCHANGED oversightVars
    /\ component # "admission" => UNCHANGED admissionVars

OperationsNext ==
    \/ component = "experiments" /\ ExperimentsNext /\ Rest
    \/ component = "registry" /\ RegistryNext /\ Rest
    \/ component = "subscriptions" /\ SubscriptionsNext /\ Rest
    \/ component = "events" /\ EventIngestNext /\ Rest
    \/ component = "health" /\ HealthSignalsNext /\ Rest
    \/ component = "oversight" /\ OversightNext /\ Rest
    \/ component = "admission" /\ AdmissionNext /\ Rest

OperationsSpec == OperationsInit /\ [][OperationsNext]_operationsVars

\* Every service keeps the types of its rows and requests.
OperationsTypeOK ==
    CASE component = "experiments" -> ExperimentsTypeOK
      [] component = "registry" -> RegistryTypeOK
      [] component = "subscriptions" -> SubscriptionsTypeOK
      [] component = "events" -> EventIngestTypeOK
      [] component = "health" -> HealthSignalsTypeOK
      [] component = "oversight" -> OversightTypeOK
      [] component = "admission" -> AdmissionTypeOK
=============================================================================
