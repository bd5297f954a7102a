CONSTANTS
    race = race  zip = zip  other = other
    Unset = Unset
    NaN = NaN
    Attribute = {race, zip, other}
    FINANCE <- MCFinance
    Window <- MCWindow
    Parameters <- MCParameters
    WindowRules <- MCWindowRules
SPECIFICATION PESpec
INVARIANTS FourFifths NamesDoNotMatter ParametersReproduce OneClassification
