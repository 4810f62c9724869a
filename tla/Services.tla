------------------------------- MODULE Services -------------------------------
(***************************************************************************)
(* The services that a learner meets, side by side: a behaviour is one of  *)
(* theirs, chosen at its start.  Where a table of one of them has a second *)
(* writer, that writer is in the module that owns the table, so that       *)
(* interleaving these modules would show no more than each of them does.   *)
(***************************************************************************)
EXTENDS DailyLoop, Lifecycle, Notifications, Offers, Practice, Personalization, Awards, Content, LearningCursor

VARIABLE component      \* the service that this behaviour is about; never changes

servicesVars ==
    <<component, dailyVars, lifecycleVars, noticeVars, offersVars, practiceVars, personalizationVars, awardsVars,
      contentVars, vars>>

Components ==
    {"daily", "lifecycle", "notifications", "offers", "practice", "personalization", "awards", "content", "cursor"}

\* What the other services leave open at their start is fixed.
ServicesInit ==
    /\ component \in Components
    /\ DailyInit /\ LifecycleInit /\ PracticeInit /\ PersonalizationInit /\ AwardsInit /\ Init
    /\ NotificationsInit /\ (component # "notifications" => chosenLimit = NoSender.limit)
    /\ OffersInit /\ (component # "offers" => person = CHOOSE p \in Persons : TRUE)
    /\ ContentInit /\ (component # "content" => gated /\ learner = NewLearner /\ templates = [k \in TemplateKeys |-> NoTemplate])

Rest ==
    /\ UNCHANGED component
    /\ component # "daily" => UNCHANGED dailyVars
    /\ component # "lifecycle" => UNCHANGED lifecycleVars
    /\ component # "notifications" => UNCHANGED noticeVars
    /\ component # "offers" => UNCHANGED offersVars
    /\ component # "practice" => UNCHANGED practiceVars
    /\ component # "personalization" => UNCHANGED personalizationVars
    /\ component # "awards" => UNCHANGED awardsVars
    /\ component # "content" => UNCHANGED contentVars
    /\ component # "cursor" => UNCHANGED vars

ServicesNext ==
    \/ component = "daily" /\ DailyNext /\ Rest
    \/ component = "lifecycle" /\ LifecycleNext /\ Rest
    \/ component = "notifications" /\ NotificationsNext /\ Rest
    \/ component = "offers" /\ OffersNext /\ Rest
    \/ component = "practice" /\ PracticeNext /\ Rest
    \/ component = "personalization" /\ PersonalizationNext /\ Rest
    \/ component = "awards" /\ AwardsNext /\ Rest
    \/ component = "content" /\ ContentNext /\ Rest
    \/ component = "cursor" /\ Next /\ Rest

ServicesSpec == ServicesInit /\ [][ServicesNext]_servicesVars

\* Every service keeps the types of its rows and requests.
ServicesTypeOK ==
    CASE component = "daily" -> DailyTypeOK
      [] component = "lifecycle" -> LifecycleTypeOK
      [] component = "notifications" -> NotificationsTypeOK
      [] component = "offers" -> OffersTypeOK
      [] component = "practice" -> PracticeTypeOK
      [] component = "personalization" -> PersonalizationTypeOK
      [] component = "awards" -> AwardsTypeOK
      [] component = "content" -> ContentTypeOK
      [] component = "cursor" -> TypeOK
=============================================================================
