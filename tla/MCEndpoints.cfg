SPECIFICATION Spec
CONSTANTS
    MaxIDLength = 3
    Bases <- BasePaths
INVARIANTS
    RoutedAsMeant
    NoEmptySegment
    RejectsBeforeSending
    FiltersAsMeant
